---- MODULE Spec2Model ----
(***************************************************************************)
(* Gateway connection and broadcast protocol of src/gateway/server.ts:     *)
(* the per-socket handshake (connect request, protocol negotiation, auth), *)
(* request dispatch with one response per request, the sequenced event     *)
(* broadcaster with its slow-consumer policy, presence/health versions and *)
(* socket teardown.                                                        *)
(*                                                                         *)
(* Every handler of the source is one action.  An `await` in a handler is  *)
(* a suspension point: the code before it and the code after it are two    *)
(* actions, and other handlers may run in between.  A callback handed to   *)
(* queueMicrotask runs before the next event-loop task, so it belongs to   *)
(* the action that queued it.                                              *)
(***************************************************************************)
EXTENDS Integers, Sequences, FiniteSets, TLC

\* ---------------------------------------------------------------- bounds
NConn == 2
MaxMsgs == 3
MaxConnects == 2
MaxSeq == 2
MaxProbes == 1
NKeys == 4
NIdem == 1
MaxRuns == 2
MaxNow == 3
RunDeadline == 1
NNodes == 2
NSessions == 2
MaxNodeEvents == 4
MaxListeners == 1
MaxRestarts == 2
MaxReasonLen == 3
MaxCap == 4
MaxReqs == 2
MaxWebMsgs == 2

\* stand-ins, in clock steps of the model, for the values of server-constants
DEDUPE_MAX == 2
DEDUPE_TTL_MS == 1
\* stand-in for the 60 * 60_000 ms of the sweep, longer than the dedupe TTL
ABORTED_RUN_TTL_MS == 2

\* ------------------------------------------------------ program constants
PROTOCOL_VERSION == 2
MAX_BUFFERED_BYTES == 1572864
CLOSE_NORMAL == 1000
CLOSE_PROTOCOL_ERROR == 1002
CLOSE_POLICY_VIOLATION == 1008
CLOSE_SERVICE_RESTART == 1012
CLOSE_REASON_MAX_BYTES == 120

Conns == 1..NConn
NoId == 0
\* clients number their frames: the k-th frame the gateway receives has id k
ReqIds == 1..MaxMsgs
DedupeKeys == 1..NKeys
IdemKeys == 1..NIdem
Runs == 1..MaxRuns
NoTime == -1
BridgeNodeIds == 1..NNodes
SessionKeys == 1..NSessions
NoKey == <<"none", 0>>
WebIds == 1..MaxReqs
\* a gateway.auth block: its mode ("undef" when the key is absent) and whether
\* it holds a token and a password
AuthBlocks == [mode : {"undef", "token", "password"}, token : BOOLEAN,
               password : BOOLEAN]
NoAuth == [mode |-> "undef", token |-> FALSE, password |-> FALSE]
WizardInputs ==
  [bind : {"auto", "lan", "loopback", "custom"},
   authMode : {"off", "token", "password"},
   tailscaleMode : {"off", "serve", "funnel"},
   existing : AuthBlocks]
NotWritten == [bind |-> "", auth |-> NoAuth, tailscaleMode |-> ""]
\* the codes a close event can carry: the default of the gateway's close(),
\* protocol mismatch, policy violation, service restart, and the abnormal
\* closure the browser reports when the connection is lost
CloseCodes == {1000, 1002, 1008, 1012, 1006}
\* what the gateway can send: hello-ok, an event, a text that is not JSON, and
\* a response with the id of a request it has seen or with an id (0) that no
\* request has
WebMessages ==
  [kind : {"hello-ok", "event", "garbage"}, id : {0}, ok : {TRUE}]
    \cup [kind : {"res"}, id : 0..MaxReqs, ok : BOOLEAN]
NoClient == [conn |-> 0, rid |-> 0, key |-> NoKey]

VARIABLES
  running,         \* the gateway has not been shut down by close()
  sock,            \* readyState of each accepted socket
  bufferedAmount,  \* socket.bufferedAmount
  sockCode,        \* code of the socket.close call that closed the socket
  sockReason,      \* reason of that call
  closed,          \* the connection's `closed` flag
  handshakeState,
  closeCause,
  handshakeTimer,  \* the handshake timer is armed
  client,          \* the connection's `client` variable
  clients,         \* the active client set
  pendingAuth,     \* connect requests suspended in `await authorizeGatewayConnect`
  inflight,        \* dispatched requests whose handler has not settled
  sent,            \* observation: frames the last handler wrote to each socket
  seq,             \* broadcast sequence counter
  presence,        \* system presence table: key -> last reason
  presenceVersion,
  healthVersion,
  healthCache,     \* a health snapshot is cached
  healthRefresh,   \* the healthRefresh promise is set
  probing,         \* number of getHealthSnapshot probes in flight
  msgs,            \* number of frames received on each socket
  probes,          \* number of timer-driven health refreshes so far
  goodConnect,     \* history: the socket has received a valid, compatible, authorized connect
  now,             \* Date.now(), in clock steps
  dedupe,          \* the dedupe Map, in insertion order: <<[k, ts], ...>>
  chatAbortControllers, \* active chat runs: run id -> expiresAtMs
  chatRunRegistry, \* chatRunState.registry: run id -> idempotency key of the request
  abortedRuns,     \* chatRunState.abortedRuns: run id -> abortedAt
  chatRunBuffers,  \* chatRunState.buffers: run ids with buffered output
  chatDeltaSentAt, \* chatRunState.deltaSentAt: run ids with a delta timestamp
  nextRun,         \* number of chat runs started so far
  lastStart,       \* history: idempotency key -> time its last run was started
  chatStep,        \* observation: what the last dedupe or chat step answered, emitted or deleted
  bridge,          \* the `bridge` variable is set
  bridgeNodes,     \* authenticated bridge nodes
  bridgeSubscriptions, \* node id -> session keys it is subscribed to
  bridgeSent,      \* observation: the nodes the last step sent a bridge event to
  nodePresenceTimers, \* node ids with a presence beacon interval
  startCfg,        \* what startGatewayServer resolved from config, options and environment
  serving,         \* "starting", "checked", "listening", or "failed" when it threw
  rawConfig,       \* the raw config object handed to applyLegacyMigrations
  next,            \* the `next` of its result
  changes,         \* the `changes` of its result
  legacyDone,      \* applyLegacyMigrations has returned
  sigusr1Listeners, \* process.listenerCount("SIGUSR1")
  restartSignals,  \* number of SIGUSR1 events emitted so far
  reloadLog,       \* observation: what the last restart request logged
  rawReason,       \* the string handed to truncateCloseReason: its characters, by UTF-8 width
  maxBytes,        \* the maxBytes argument
  truncated,       \* what truncateCloseReason returned
  staleNodes,      \* node ids whose old bridge connection is still to be reported closed
  wsReady,         \* WebChat GatewaySocket: "none" before connect(), then ws.readyState
  connectPromise,  \* state of the promise connect() returned
  webPending,      \* ids in the `pending` map
  webTimers,       \* ids whose request timeout has not fired yet
  webIssued,       \* number of request() calls that sent a frame; their ids are 1..webIssued
  webCalls,        \* history: id -> the resolve and reject calls made on its promise
  received,        \* history: the messages ws.onmessage was called with
  wizInput,        \* the wizard's answers and the gateway.auth block of the existing config
  wizard,          \* the wizard that has written the config, "none" before
  written          \* the gateway section it wrote

vars == <<running, sock, bufferedAmount, sockCode, sockReason, closed,
          handshakeState, closeCause, handshakeTimer, client, clients,
          pendingAuth, inflight, sent, seq, presence, presenceVersion,
          healthVersion, healthCache, healthRefresh, probing, msgs, probes,
          goodConnect, now, dedupe, chatAbortControllers, chatRunRegistry,
          abortedRuns, chatRunBuffers, chatDeltaSentAt, nextRun, lastStart,
          chatStep, bridge, bridgeNodes, bridgeSubscriptions, bridgeSent,
          nodePresenceTimers, startCfg, serving, rawConfig, next, changes,
          legacyDone, sigusr1Listeners, restartSignals, reloadLog,
          rawReason, maxBytes, truncated, staleNodes, wsReady, connectPromise,
          webPending, webTimers, webIssued, webCalls, received, wizInput, wizard,
          written>>

connVars == <<sock, sockCode, sockReason, closed, handshakeState, closeCause,
              handshakeTimer, client>>
healthVars == <<healthVersion, healthCache, healthRefresh, probes, probing>>
dedupeVars == <<now, dedupe>>
chatVars == <<chatAbortControllers, chatRunRegistry, abortedRuns, chatRunBuffers,
              chatDeltaSentAt, nextRun, lastStart, chatStep>>
bridgeVars == <<bridge, bridgeNodes, bridgeSubscriptions, bridgeSent, nodePresenceTimers>>
startVars == <<startCfg, serving>>
legacyVars == <<rawConfig, next, changes, legacyDone>>
reloadVars == <<sigusr1Listeners, restartSignals, reloadLog>>
truncVars == <<rawReason, maxBytes, truncated>>
webVars == <<wsReady, connectPromise, webPending, webTimers, webIssued, webCalls,
             received>>
wizVars == <<wizInput, wizard, written>>
auxVars == <<truncVars, staleNodes, webVars, wizVars>>
restVars == <<startVars, legacyVars, reloadVars, auxVars>>

\* ----------------------------------------------------------------- frames
Methods == {"connect", "health", "nope"}
KnownMethods == {"connect", "health"}
Ranges == {<<1, 1>>, <<1, 2>>, <<2, 3>>, <<3, 3>>}

\* A received text: not JSON at all, a JSON value that is not a request
\* frame (with or without an id), or a request frame.  A connect request
\* carries its protocol range, whether the auth resolver accepts its
\* credentials, whether the client is the gateway CLI, and its instance id.
TextFrames == {[kind |-> "text", id |-> NoId, method |-> "", paramsOk |-> FALSE,
                min |-> 0, max |-> 0, authOk |-> FALSE, cli |-> FALSE, inst |-> 0]}
JsonFrames == {[kind |-> "json", id |-> i, method |-> "", paramsOk |-> FALSE,
                min |-> 0, max |-> 0, authOk |-> FALSE, cli |-> FALSE, inst |-> 0] :
               i \in ReqIds \cup {NoId}}
OtherReqFrames == {[kind |-> "req", id |-> i, method |-> m, paramsOk |-> FALSE,
                    min |-> 0, max |-> 0, authOk |-> FALSE, cli |-> FALSE, inst |-> 0] :
                   i \in ReqIds, m \in Methods}
ConnectFrames == {[kind |-> "req", id |-> i, method |-> "connect", paramsOk |-> TRUE,
                   min |-> r[1], max |-> r[2], authOk |-> a, cli |-> k, inst |-> n] :
                  i \in ReqIds, r \in Ranges, a \in BOOLEAN, k \in BOOLEAN, n \in {0, 1}}
Frames == TextFrames \cup JsonFrames \cup OtherReqFrames \cup ConnectFrames

JsonParses(f) == f.kind # "text"
validateRequestFrame(f) == f.kind = "req"
validateConnectParams(f) == f.paramsOk

Res(id, ok, code, msg, pv, hv) ==
  [t |-> "res", id |-> id, ok |-> ok, code |-> code, msg |-> msg,
   seq |-> 0, pv |-> pv, hv |-> hv]
Evt(event, s, pv, hv) ==
  [t |-> "event", id |-> NoId, ok |-> TRUE, code |-> "", msg |-> event,
   seq |-> s, pv |-> pv, hv |-> hv]

\* ------------------------------------------------------- socket primitives
\* socket.send: the frame is written only while the socket is OPEN; the
\* exception or error of a send on a closing socket is swallowed.
SockSend(c, frames) == IF sock[c] = "open" THEN frames ELSE << >>
Nothing == [c \in Conns |-> << >>]
Wrote(c, frames) == [Nothing EXCEPT ![c] = SockSend(c, frames)]

\* socket.close(code, reason): starts the closing handshake of an open socket,
\* does nothing on a socket that is already closing or closed.
SockCloseState(c) == IF sock[c] = "open" THEN "closing" ELSE sock[c]
SockCloseCode(c, code) == IF sock[c] = "open" THEN code ELSE sockCode[c]
SockCloseReason(c, reason) == IF sock[c] = "open" THEN reason ELSE sockReason[c]

\* ------------------------------------------------------------ small pieces
RECURSIVE SumTo(_, _)
SumTo(f, n) == IF n = 0 THEN 0 ELSE f[n] + SumTo(f, n - 1)
Total == SumTo(msgs, NConn)

Repeat(frame, n) == [i \in 1..n |-> frame]
\* number of entries of the active set that hold the socket of connection c
Copies(c) == Cardinality({cl \in clients : cl.conn = c})
Registered(c) == Copies(c) > 0

NodeKey == <<"node", 1>>
NodeKeyOf(n) == <<"node", n>>
PresenceKeys == {<<"conn", c>> : c \in Conns} \cup {<<"inst", 1>>, NodeKey}
                  \cup {NodeKeyOf(n) : n \in BridgeNodeIds}
\* an upsert put off to a later turn of the event loop: the step that bumps
\* the version leaves the table as it was
upsertPresenceLater(table, key, reason) == table

\* upsertPresence(key, entry): the entry of the key is written
upsertPresence(table, key, reason) == [table EXCEPT ![key] = reason]

\* authorizeGatewayConnect: the resolver's answer for the credentials and the
\* transport of a connect request (the frame says whether they are acceptable)
authorizeGatewayConnect(f) == f.authOk

\* a negotiation that lets every range through
ProtocolMismatchNever(min, max) == FALSE

\* protocol negotiation test of the connect request
ProtocolMismatch(min, max) == max < PROTOCOL_VERSION \/ min > PROTOCOL_VERSION

\* the auth failure test of the connect request
AuthDenied(ok) == ~ok

\* which branch of the invalid-handshake test a parsed frame takes, "" = a valid connect
handshakeError(f) ==
  IF ~validateRequestFrame(f) THEN "invalid request frame"
  ELSE IF f.method # "connect" THEN "invalid handshake: first request must be connect"
  ELSE IF ~validateConnectParams(f) THEN "invalid connect params"
  ELSE ""

\* close code of the invalid-handshake branch
InvalidHandshakeCode == CLOSE_POLICY_VIOLATION

\* close code used by the catch of a JSON parse failure: close() with its default
ParseErrorCode == CLOSE_NORMAL

\* presence key of a registered client: none for CLI clients, else instanceId ?? connId
PresenceKeyOf(c, f) ==
  IF f.cli THEN NoKey ELSE IF f.inst # 0 THEN <<"inst", f.inst>> ELSE <<"conn", c>>

\* a counter that is read but not advanced
NextSeqStuck(s) == s

\* sequence number of the next broadcast
NextSeq(s) == s + 1

\* a fan-out loop that only honours dropIfSlow and never closes
SlowPolicySendAnyway(slow, dropIfSlow) == IF slow /\ dropIfSlow THEN "skip" ELSE "send"

\* what the fan-out loop does with one client
SlowPolicy(slow, dropIfSlow) ==
  IF slow /\ dropIfSlow THEN "skip" ELSE IF slow THEN "close" ELSE "send"

\* the dropIfSlow option of each broadcast call site
DropIfSlowOf(event) ==
  CASE event = "tick" -> TRUE
    [] event = "cron" -> TRUE
    [] event = "heartbeat" -> TRUE
    [] event = "voicewake.changed" -> TRUE
    [] event = "node.pair.requested" -> TRUE
    [] event = "presence" -> TRUE
    [] event = "health" -> FALSE
    [] event = "shutdown" -> FALSE

\* the events stamped with a stateVersion
HasStateVersion(event) == event \in {"presence", "health"}

IsSlow(amount) == amount > MAX_BUFFERED_BYTES

\* an event frame built without its stateVersion option
BFrameUnversioned(event, s, pv, hv) == Evt(event, s, 0, 0)

\* broadcast(event, ..): the frame and its effect on every socket.  sk is the
\* readyState of the sockets when the loop runs, s the sequence number allocated.
BFrame(event, s, pv, hv) ==
  IF HasStateVersion(event) THEN Evt(event, s, pv, hv) ELSE Evt(event, s, 0, 0)
BAct(c, drop) ==
  IF Registered(c) THEN SlowPolicy(IsSlow(bufferedAmount'[c]), drop) ELSE "none"
BOutbox(sk, frame, drop) ==
  [c \in Conns |-> IF BAct(c, drop) = "send" /\ sk[c] = "open"
                   THEN Repeat(frame, Copies(c)) ELSE << >>]
BSock(sk, drop) ==
  [c \in Conns |-> IF BAct(c, drop) = "close" /\ sk[c] = "open" THEN "closing" ELSE sk[c]]
BCode(sk, drop) ==
  [c \in Conns |-> IF BAct(c, drop) = "close" /\ sk[c] = "open"
                   THEN CLOSE_POLICY_VIOLATION ELSE sockCode[c]]
BReason(sk, drop) ==
  [c \in Conns |-> IF BAct(c, drop) = "close" /\ sk[c] = "open"
                   THEN "slow consumer" ELSE sockReason[c]]

\* a clearTimeout that is left out: the timer stays armed
clearTimeoutForgotten(c) == handshakeTimer

\* clearTimeout(handshakeTimer)
clearTimeout(c) == [handshakeTimer EXCEPT ![c] = FALSE]

\* a close without its `closed` guard: every call tears down again
CloseAlways(c, code, reason) ==
  /\ closed' = [closed EXCEPT ![c] = TRUE]
  /\ handshakeTimer' = [handshakeTimer EXCEPT ![c] = FALSE]
  /\ clients' = clients \ {client[c]}
  /\ sock' = [sock EXCEPT ![c] = SockCloseState(c)]
  /\ sockCode' = [sockCode EXCEPT ![c] = SockCloseCode(c, code)]
  /\ sockReason' = [sockReason EXCEPT ![c] = SockCloseReason(c, reason)]

\* the connection's close(code, reason)
Close(c, code, reason) ==
  IF closed[c]
  THEN UNCHANGED <<closed, handshakeTimer, clients, sock, sockCode, sockReason>>
  ELSE /\ closed' = [closed EXCEPT ![c] = TRUE]
       /\ handshakeTimer' = clearTimeout(c)
       /\ clients' = clients \ {client[c]}
       /\ sock' = [sock EXCEPT ![c] = SockCloseState(c)]
       /\ sockCode' = [sockCode EXCEPT ![c] = SockCloseCode(c, code)]
       /\ sockReason' = [sockReason EXCEPT ![c] = SockCloseReason(c, reason)]

setCloseCause(c, cause) == [closeCause EXCEPT ![c] = IF @ = "" THEN cause ELSE @]

\* a refresh that starts a probe on every call
KickHealthUncoalesced ==
  /\ healthRefresh' = TRUE
  /\ probing' = probing + 1

\* a marker that is cleared by nobody once the probe has settled
FinallyKept(marker) == marker

\* .finally(() => { healthRefresh = null })
Finally(marker) == FALSE

\* refreshHealthSnapshot(): starts a probe unless one is in flight
KickHealth ==
  IF healthRefresh
  THEN UNCHANGED <<healthRefresh, probing>>
  ELSE /\ healthRefresh' = TRUE
       /\ probing' = probing + 1

\* ------------------------------------------------------------------- Init
\* what startGatewayServer resolves before it binds
StartConfigs ==
  {cfg \in [loopback : BOOLEAN, authMode : {"none", "token", "password"},
            authConfigured : BOOLEAN, tailscaleMode : {"off", "serve", "funnel"},
            portBusy : BOOLEAN] :
     cfg.authMode = "none" => cfg.authConfigured}

\* a loopback gateway with a token, the port free
DefaultStartCfg ==
  [loopback |-> TRUE, authMode |-> "token", authConfigured |-> TRUE,
   tailscaleMode |-> "off", portBusy |-> FALSE]

\* a raw config: gateway and gateway.auth are absent ("undef"), not an object
\* ("scalar") or an object ("obj") with token / auth.token / auth.mode
NoRaw ==
  [root |-> "obj", gateway |-> "undef", token |-> "undef", auth |-> "undef",
   authToken |-> "undef", authMode |-> "undef"]

\* the `next: null` of applyLegacyMigrations
NullConfig == [NoRaw EXCEPT !.root = "null"]

\* the values of gateway.token and gateway.auth.token: absent, or a string,
\* the empty one included
TokenValues == {"undef", "", "legacy-token", "auth-token"}

\* the values of gateway.auth.mode: absent, or a string, the empty one included
ModeValues == {"undef", "", "token", "password"}

\* the raw configs: not an object at all, without a gateway object, or with one
RawConfigs ==
  {[NoRaw EXCEPT !.root = "scalar"], NoRaw, [NoRaw EXCEPT !.gateway = "scalar"]}
  \cup {[NoRaw EXCEPT !.gateway = "obj", !.token = t, !.auth = a] :
           t \in TokenValues, a \in {"undef", "scalar"}}
  \cup {[root |-> "obj", gateway |-> "obj", token |-> t, auth |-> "obj",
          authToken |-> at, authMode |-> am] :
           t \in TokenValues, at \in TokenValues, am \in ModeValues}

\* the state of the gateway when startGatewayServer has set it up
GatewayInit ==
  /\ running = TRUE
  /\ sock = [c \in Conns |-> "idle"]
  /\ bufferedAmount = [c \in Conns |-> 0]
  /\ sockCode = [c \in Conns |-> 0]
  /\ sockReason = [c \in Conns |-> ""]
  /\ closed = [c \in Conns |-> FALSE]
  /\ handshakeState = [c \in Conns |-> "pending"]
  /\ closeCause = [c \in Conns |-> ""]
  /\ handshakeTimer = [c \in Conns |-> FALSE]
  /\ client = [c \in Conns |-> NoClient]
  /\ clients = {}
  /\ pendingAuth = {}
  /\ inflight = {}
  /\ sent = Nothing
  /\ seq = 0
  /\ presence = [k \in PresenceKeys |-> ""]
  /\ presenceVersion = 1
  /\ healthVersion = 1
  /\ healthCache = FALSE
  /\ healthRefresh = TRUE
  /\ probing = 1
  /\ msgs = [c \in Conns |-> 0]
  /\ probes = 0
  /\ goodConnect = [c \in Conns |-> FALSE]
  /\ now = 0
  /\ dedupe = << >>
  /\ chatAbortControllers = [r \in Runs |-> NoTime]
  /\ chatRunRegistry = [r \in Runs |-> 0]
  /\ abortedRuns = [r \in Runs |-> NoTime]
  /\ chatRunBuffers = {}
  /\ chatDeltaSentAt = {}
  /\ nextRun = 0
  /\ lastStart = [k \in IdemKeys |-> NoTime]
  /\ chatStep = {}
  /\ bridge = FALSE
  /\ bridgeNodes = {}
  /\ bridgeSubscriptions = [n \in BridgeNodeIds |-> {}]
  /\ bridgeSent = {}
  /\ nodePresenceTimers = {}
  /\ next = NullConfig
  /\ changes = << >>
  /\ legacyDone = FALSE
  /\ sigusr1Listeners = 0
  /\ restartSignals = 0
  /\ reloadLog = << >>

\* the gateway is up: startGatewayServer has returned
\* a character is given by the number of bytes of its UTF-8 encoding
Chars == 1..4

\* the strings of up to n characters
Strings(n) == UNION {[1..k -> Chars] : k \in 0..n}

\* "not called yet", which no string is
NotCalled == <<0>>

\* truncateCloseReason has not been called
TruncIdle ==
  /\ rawReason = << >>
  /\ maxBytes = CLOSE_REASON_MAX_BYTES
  /\ truncated = NotCalled

\* no node has reconnected over a connection that is still open
ReconnIdle == staleNodes = {}

\* a GatewaySocket as its constructor leaves it
WebIdle ==
  /\ wsReady = "none"
  /\ connectPromise = "none"
  /\ webPending = {}
  /\ webTimers = {}
  /\ webIssued = 0
  /\ webCalls = [id \in WebIds |-> << >>]
  /\ received = << >>

\* no wizard is running: default answers, no existing auth block
WizIdle ==
  /\ wizInput = [bind |-> "loopback", authMode |-> "token", tailscaleMode |-> "off",
                 existing |-> NoAuth]
  /\ wizard = "none"
  /\ written = NotWritten

AuxIdle == TruncIdle /\ ReconnIdle /\ WebIdle /\ WizIdle

Init ==
  /\ GatewayInit
  /\ startCfg = DefaultStartCfg
  /\ serving = "listening"
  /\ rawConfig = NoRaw
  /\ AuxIdle

\* startGatewayServer is entered with any resolved configuration
StartInit ==
  /\ GatewayInit
  /\ startCfg \in StartConfigs
  /\ serving = "starting"
  /\ rawConfig = NoRaw
  /\ AuxIdle

\* applyLegacyMigrations is about to be called with any raw config
LegacyInit ==
  /\ GatewayInit
  /\ startCfg = DefaultStartCfg
  /\ serving = "starting"
  /\ rawConfig \in RawConfigs
  /\ AuxIdle

\* truncateCloseReason is about to be called with any string and any cap, the
\* default cap included
TruncInit ==
  /\ GatewayInit
  /\ startCfg = DefaultStartCfg
  /\ serving = "listening"
  /\ rawConfig = NoRaw
  /\ rawReason \in Strings(MaxReasonLen)
  /\ maxBytes \in 0..MaxCap \cup {CLOSE_REASON_MAX_BYTES}
  /\ truncated = NotCalled
  /\ ReconnIdle
  /\ WebIdle
  /\ WizIdle

\* a wizard is about to ask its gateway questions: any answers, any existing
\* gateway.auth block
WizardInit ==
  /\ GatewayInit
  /\ startCfg = DefaultStartCfg
  /\ serving = "listening"
  /\ rawConfig = NoRaw
  /\ TruncIdle /\ ReconnIdle /\ WebIdle
  /\ wizInput \in WizardInputs
  /\ wizard = "none"
  /\ written = NotWritten

BufferLevels == {0, MAX_BUFFERED_BYTES, MAX_BUFFERED_BYTES + 1}

\* ---------------------------------------------------------------- actions
CanReceive(c, f) ==
  /\ sock[c] \in {"open", "closing"}
  /\ ~closed[c]
  /\ f.id \in {NoId, Total + 1}

\* a connect request that is well formed, whose range contains
\* PROTOCOL_VERSION and whose credentials the resolver accepts
GoodConnect(f) ==
  /\ f.kind = "req" /\ f.method = "connect" /\ f.paramsOk
  /\ f.min <= PROTOCOL_VERSION /\ PROTOCOL_VERSION <= f.max
  /\ f.authOk

Received(c, f) ==
  /\ msgs' = [msgs EXCEPT ![c] = @ + 1]
  /\ goodConnect' = [goodConnect EXCEPT ![c] = @ \/ GoodConnect(f)]

\* wss.on("connection"): a socket is accepted and its handshake timer armed
Accept(c) ==
  /\ UNCHANGED restVars
  /\ UNCHANGED <<dedupeVars, chatVars, bridgeVars>>
  /\ running
  /\ sock[c] = "idle"
  /\ \A d \in Conns : d < c => sock[d] # "idle"
  /\ sock' = [sock EXCEPT ![c] = "open"]
  /\ handshakeTimer' = [handshakeTimer EXCEPT ![c] = TRUE]
  /\ sent' = Nothing
  /\ UNCHANGED <<running, bufferedAmount, sockCode, sockReason, closed,
                 handshakeState, closeCause, client, clients, pendingAuth,
                 inflight, seq, presence, presenceVersion, healthVars,
                 msgs, goodConnect>>

\* socket.bufferedAmount as the fan-out loop of a broadcast reads it: the
\* peers of the open sockets of the active set read slowly or catch up
Buffered(b, sk) ==
  /\ \A c \in Conns : ~(Registered(c) /\ sk[c] = "open") => b[c] = bufferedAmount[c]
  /\ bufferedAmount' = b

\* message handler, catch branch: the text is not JSON
RecvUnparseable(c, f) ==
  /\ UNCHANGED restVars
  /\ UNCHANGED <<dedupeVars, chatVars, bridgeVars>>
  /\ CanReceive(c, f)
  /\ ~JsonParses(f)
  /\ Received(c, f)
  /\ IF client[c] = NoClient
     THEN /\ Close(c, ParseErrorCode, "")
     ELSE UNCHANGED <<closed, handshakeTimer, clients, sock, sockCode, sockReason>>
  /\ sent' = Nothing
  /\ UNCHANGED <<running, bufferedAmount, handshakeState, closeCause,
                 client, pendingAuth, inflight, seq, presence,
                 presenceVersion, healthVars>>

\* message handler before registration: anything but a valid connect request
RecvInvalidHandshake(c, f) ==
  /\ UNCHANGED restVars
  /\ UNCHANGED <<dedupeVars, chatVars, bridgeVars>>
  /\ CanReceive(c, f)
  /\ JsonParses(f)
  /\ client[c] = NoClient
  /\ handshakeError(f) # ""
  /\ Received(c, f)
  /\ handshakeState' = [handshakeState EXCEPT ![c] = "failed"]
  /\ closeCause' = setCloseCause(c, "invalid-handshake")
  /\ sent' = IF validateRequestFrame(f)
             THEN Wrote(c, <<Res(f.id, FALSE, "INVALID_REQUEST", handshakeError(f), 0, 0)>>)
             ELSE Nothing
  /\ Close(c, InvalidHandshakeCode, handshakeError(f))
  /\ UNCHANGED <<running, bufferedAmount, client, pendingAuth, inflight,
                 seq, presence, presenceVersion, healthVars>>

\* message handler before registration: a connect request whose range excludes
\* PROTOCOL_VERSION
RecvConnectMismatch(c, f) ==
  /\ UNCHANGED restVars
  /\ UNCHANGED <<dedupeVars, chatVars, bridgeVars>>
  /\ CanReceive(c, f)
  /\ JsonParses(f)
  /\ client[c] = NoClient
  /\ handshakeError(f) = ""
  /\ ProtocolMismatch(f.min, f.max)
  /\ Received(c, f)
  /\ handshakeState' = [handshakeState EXCEPT ![c] = "failed"]
  /\ closeCause' = setCloseCause(c, "protocol-mismatch")
  /\ sent' = Wrote(c, <<Res(f.id, FALSE, "INVALID_REQUEST", "protocol mismatch", 0, 0)>>)
  /\ Close(c, CLOSE_PROTOCOL_ERROR, "protocol mismatch")
  /\ UNCHANGED <<running, bufferedAmount, client, pendingAuth, inflight,
                 seq, presence, presenceVersion, healthVars>>

\* message handler before registration: a valid connect request calls the
\* resolver and is suspended in `await authorizeGatewayConnect(..)`; the
\* pending entry carries the resolver's answer
RecvConnect(c, f) ==
  /\ UNCHANGED restVars
  /\ UNCHANGED <<dedupeVars, chatVars, bridgeVars>>
  /\ CanReceive(c, f)
  /\ JsonParses(f)
  /\ client[c] = NoClient
  /\ handshakeError(f) = ""
  /\ ~ProtocolMismatch(f.min, f.max)
  /\ Received(c, f)
  /\ pendingAuth' = pendingAuth \cup
       {[conn |-> c, n |-> Total + 1, id |-> f.id,
         ok |-> authorizeGatewayConnect(f),
         key |-> PresenceKeyOf(c, f)]}
  /\ sent' = Nothing
  /\ UNCHANGED <<running, bufferedAmount, connVars, clients, inflight,
                 seq, presence, presenceVersion, healthVars>>

\* the resolver answered: deny
AuthDeny(p) ==
  /\ UNCHANGED restVars
  /\ UNCHANGED <<dedupeVars, chatVars, bridgeVars>>
  /\ p \in pendingAuth
  /\ AuthDenied(p.ok)
  /\ pendingAuth' = pendingAuth \ {p}
  /\ handshakeState' = [handshakeState EXCEPT ![p.conn] = "failed"]
  /\ closeCause' = setCloseCause(p.conn, "unauthorized")
  /\ sent' = Wrote(p.conn, <<Res(p.id, FALSE, "INVALID_REQUEST", "unauthorized", 0, 0)>>)
  /\ Close(p.conn, CLOSE_POLICY_VIOLATION, "unauthorized")
  /\ UNCHANGED <<running, bufferedAmount, client, inflight, seq,
                 presence, presenceVersion, healthVars, msgs, goodConnect>>

\* the resolver answered: allow.  Presence, snapshot, hello-ok, registration
\* and the health refresh all follow without another await.
AuthAllow(p) ==
  /\ UNCHANGED restVars
  /\ UNCHANGED <<dedupeVars, chatVars, bridgeVars>>
  /\ p \in pendingAuth
  /\ ~AuthDenied(p.ok)
  /\ pendingAuth' = pendingAuth \ {p}
  /\ IF p.key # NoKey
     THEN /\ presence' = upsertPresence(presence, p.key, "connect")
          /\ presenceVersion' = presenceVersion + 1
     ELSE UNCHANGED <<presence, presenceVersion>>
  /\ handshakeTimer' = clearTimeout(p.conn)
  /\ client' = [client EXCEPT ![p.conn] = [conn |-> p.conn, rid |-> p.n, key |-> p.key]]
  /\ handshakeState' = [handshakeState EXCEPT ![p.conn] = "connected"]
  /\ sent' = Wrote(p.conn, <<Res(p.id, TRUE, "", "hello-ok", presenceVersion', healthVersion)>>)
  /\ clients' = clients \cup {client'[p.conn]}
  /\ KickHealth
  /\ UNCHANGED <<running, bufferedAmount, sock, sockCode, sockReason,
                 closed, closeCause, inflight, seq, healthVersion, healthCache,
                 probes, msgs, goodConnect>>

\* the id echoed for a frame that carries none
InvalidId == -1

\* handleGatewayRequest: the method table knows the method
HandlerKnows(method) == method \in KnownMethods

\* a catch that only logs the failure
CatchResponseNone(id) == << >>

\* a catch that blames the request for the handler's failure
CatchResponseInvalid(id) == <<Res(id, FALSE, "INVALID_REQUEST", "", 0, 0)>>

\* the response of the dispatch boundary's catch when the handler failed
CatchResponse(id) == <<Res(id, FALSE, "UNAVAILABLE", "", 0, 0)>>

\* the response of handleGatewayRequest for a method it does not know
UnknownMethodResponse(id) == <<Res(id, FALSE, "INVALID_REQUEST", "unknown method", 0, 0)>>

\* the response a handler gives when it completes
HandlerResponse(id, method) ==
  IF method = "connect"
  THEN <<Res(id, FALSE, "INVALID_REQUEST", "connect is only valid as the first request", 0, 0)>>
  ELSE <<Res(id, TRUE, "", method, 0, 0)>>

\* message handler after registration: not a request frame
RecvInvalidFrame(c, f) ==
  /\ UNCHANGED restVars
  /\ UNCHANGED <<dedupeVars, chatVars, bridgeVars>>
  /\ CanReceive(c, f)
  /\ JsonParses(f)
  /\ client[c] # NoClient
  /\ ~validateRequestFrame(f)
  /\ Received(c, f)
  /\ sent' = Wrote(c, <<Res(IF f.id = NoId THEN InvalidId ELSE f.id, FALSE,
                         "INVALID_REQUEST", "invalid request frame", 0, 0)>>)
  /\ UNCHANGED <<running, bufferedAmount, connVars, clients, pendingAuth,
                 inflight, seq, presence, presenceVersion, healthVars>>

\* message handler after registration: a request frame is handed to
\* handleGatewayRequest, which answers an unknown method at once
RecvRequest(c, f) ==
  /\ UNCHANGED restVars
  /\ UNCHANGED <<dedupeVars, chatVars, bridgeVars>>
  /\ CanReceive(c, f)
  /\ JsonParses(f)
  /\ client[c] # NoClient
  /\ validateRequestFrame(f)
  /\ Received(c, f)
  /\ IF HandlerKnows(f.method)
     THEN /\ inflight' = inflight \cup {[conn |-> c, id |-> f.id, method |-> f.method]}
          /\ sent' = Nothing
     ELSE /\ sent' = Wrote(c, UnknownMethodResponse(f.id))
          /\ UNCHANGED inflight
  /\ UNCHANGED <<running, bufferedAmount, connVars, clients, pendingAuth,
                 seq, presence, presenceVersion, healthVars>>

\* socket.on("message"): the handler run on one received frame
OnMessage(c, f) ==
  \/ RecvUnparseable(c, f)
  \/ RecvInvalidHandshake(c, f)
  \/ RecvConnectMismatch(c, f)
  \/ RecvConnect(c, f)
  \/ RecvInvalidFrame(c, f)
  \/ RecvRequest(c, f)

\* the dispatched request r settles: its one call of respond
Settle(r, frames) ==
  /\ UNCHANGED restVars
  /\ UNCHANGED <<dedupeVars, chatVars, bridgeVars>>
  /\ r \in inflight
  /\ inflight' = inflight \ {r}
  /\ sent' = Wrote(r.conn, frames)
  /\ UNCHANGED <<running, bufferedAmount, connVars, clients, pendingAuth,
                 seq, presence, presenceVersion, healthVars, msgs, goodConnect>>

\* the handler of a dispatched request completes and responds
HandlerRespond(r) == Settle(r, HandlerResponse(r.id, r.method))

\* the handler of a dispatched request throws or rejects: the catch responds
HandlerThrow(r) == Settle(r, CatchResponse(r.id))

\* the handshake timer fires
HandshakeTimeout(c) ==
  /\ UNCHANGED restVars
  /\ UNCHANGED <<dedupeVars, chatVars, bridgeVars>>
  /\ handshakeTimer[c]
  /\ IF client[c] = NoClient
     THEN /\ handshakeState' = [handshakeState EXCEPT ![c] = "failed"]
          /\ closeCause' = setCloseCause(c, "handshake-timeout")
          /\ IF closed[c]
             THEN /\ handshakeTimer' = [handshakeTimer EXCEPT ![c] = FALSE]
                  /\ UNCHANGED <<closed, clients, sock, sockCode, sockReason>>
             ELSE Close(c, CLOSE_NORMAL, "")
     ELSE /\ handshakeTimer' = [handshakeTimer EXCEPT ![c] = FALSE]
          /\ UNCHANGED <<handshakeState, closeCause, closed, clients, sock, sockCode,
                         sockReason>>
  /\ sent' = Nothing
  /\ UNCHANGED <<running, bufferedAmount, client, pendingAuth, inflight,
                 seq, presence, presenceVersion, healthVars, msgs, goodConnect>>

\* socket "error" event
SocketError(c) ==
  /\ UNCHANGED restVars
  /\ UNCHANGED <<dedupeVars, chatVars, bridgeVars>>
  /\ sock[c] \in {"open", "closing"}
  /\ ~closed[c]
  /\ Close(c, CLOSE_NORMAL, "")
  /\ sent' = Nothing
  /\ UNCHANGED <<running, bufferedAmount, handshakeState, closeCause,
                 client, pendingAuth, inflight, seq, presence,
                 presenceVersion, healthVars, msgs, goodConnect>>

\* socket "close" event: the socket is gone (closed by the peer, or the closing
\* handshake of a socket.close finished); presence is marked and broadcast, then close()
SocketCloseEvent(c, b) ==
  /\ UNCHANGED restVars
  /\ UNCHANGED <<dedupeVars, chatVars, bridgeVars>>
  /\ sock[c] \in {"open", "closing"}
  /\ LET sk == [sock EXCEPT ![c] = "closed"]
         tracked == client[c] # NoClient /\ client[c].key # NoKey
     IN /\ sock' = sk
        /\ IF tracked THEN Buffered(b, sk) ELSE Buffered(bufferedAmount, sk)
        /\ IF tracked
           THEN /\ presence' = upsertPresence(presence, client[c].key, "disconnect")
                /\ presenceVersion' = presenceVersion + 1
                /\ seq' = NextSeq(seq)
                /\ sent' = BOutbox(sk, BFrame("presence", seq', presenceVersion', healthVersion),
                                     DropIfSlowOf("presence"))
           ELSE /\ sent' = Nothing
                /\ UNCHANGED <<presence, presenceVersion, seq>>
  /\ closed' = [closed EXCEPT ![c] = TRUE]
  /\ handshakeTimer' = [handshakeTimer EXCEPT ![c] = IF closed[c] THEN @ ELSE FALSE]
  /\ clients' = IF closed[c] THEN clients ELSE clients \ {client[c]}
  /\ UNCHANGED <<running, sockCode, sockReason,
                 handshakeState, closeCause, client, pendingAuth, inflight,
                 healthVars, msgs, goodConnect>>

\* events broadcast by timers and collaborators (tick interval, cron, pairing)
ExternalEvents == {"tick", "node.pair.requested"}

\* broadcast(event, payload, opts) called from a timer or collaborator callback
EmitEvent(e, b) ==
  /\ UNCHANGED restVars
  /\ UNCHANGED <<dedupeVars, chatVars, bridgeVars>>
  /\ running
  /\ seq < MaxSeq
  /\ Buffered(b, sock)
  /\ seq' = NextSeq(seq)
  /\ sent' = BOutbox(sock, BFrame(e, seq', presenceVersion, healthVersion), DropIfSlowOf(e))
  /\ sock' = BSock(sock, DropIfSlowOf(e))
  /\ sockCode' = BCode(sock, DropIfSlowOf(e))
  /\ sockReason' = BReason(sock, DropIfSlowOf(e))
  /\ UNCHANGED <<running, closed, handshakeState,
                 closeCause, handshakeTimer, client, clients, pendingAuth,
                 inflight, presence, presenceVersion, healthVars, msgs, goodConnect>>

\* the reasons a bridge node's presence is beaconed with
NodeReasons == {"node-connected", "periodic"}

\* beaconNodePresence(node, reason): presence entry of the node, version, broadcast
beaconNodePresence(key, reason, b) ==
  /\ running
  /\ Buffered(b, sock)
  /\ presence' = upsertPresence(presence, key, reason)
  /\ presenceVersion' = presenceVersion + 1
  /\ seq' = NextSeq(seq)
  /\ sent' = BOutbox(sock, BFrame("presence", seq', presenceVersion', healthVersion),
                       DropIfSlowOf("presence"))
  /\ sock' = BSock(sock, DropIfSlowOf("presence"))
  /\ sockCode' = BCode(sock, DropIfSlowOf("presence"))
  /\ sockReason' = BReason(sock, DropIfSlowOf("presence"))
  /\ UNCHANGED <<running, closed, handshakeState,
                 closeCause, handshakeTimer, client, clients, pendingAuth,
                 inflight, healthVars, msgs, goodConnect>>

\* a node's presence timer fires, or the node is announced
BeaconNodePresence(reason, b) ==
  /\ UNCHANGED restVars
  /\ seq < MaxSeq
  /\ beaconNodePresence(NodeKey, reason, b)
  /\ UNCHANGED <<dedupeVars, chatVars, bridgeVars>>

\* the health interval calls refreshHealthSnapshot
HealthTimer ==
  /\ UNCHANGED restVars
  /\ UNCHANGED <<dedupeVars, chatVars, bridgeVars>>
  /\ running
  /\ probes < MaxProbes
  /\ KickHealth
  /\ probes' = probes + 1
  /\ sent' = Nothing
  /\ UNCHANGED <<running, bufferedAmount, connVars, clients, pendingAuth,
                 inflight, seq, presence, presenceVersion, healthVersion,
                 healthCache, msgs, goodConnect>>

\* the probe in flight resolves: cache, version, health broadcast, marker cleared
ProbeResolve(b) ==
  /\ UNCHANGED restVars
  /\ UNCHANGED <<dedupeVars, chatVars, bridgeVars>>
  /\ probing > 0
  /\ probing' = probing - 1
  /\ Buffered(b, sock)
  /\ healthCache' = TRUE
  /\ healthVersion' = healthVersion + 1
  /\ seq' = NextSeq(seq)
  /\ sent' = BOutbox(sock, BFrame("health", seq', presenceVersion, healthVersion'),
                       DropIfSlowOf("health"))
  /\ sock' = BSock(sock, DropIfSlowOf("health"))
  /\ sockCode' = BCode(sock, DropIfSlowOf("health"))
  /\ sockReason' = BReason(sock, DropIfSlowOf("health"))
  /\ healthRefresh' = Finally(healthRefresh)
  /\ UNCHANGED <<running, closed, handshakeState,
                 closeCause, handshakeTimer, client, clients, pendingAuth,
                 inflight, presence, presenceVersion, probes, msgs, goodConnect>>

\* the probe in flight rejects: only the marker is cleared
ProbeReject ==
  /\ UNCHANGED restVars
  /\ UNCHANGED <<dedupeVars, chatVars, bridgeVars>>
  /\ probing > 0
  /\ probing' = probing - 1
  /\ healthRefresh' = Finally(healthRefresh)
  /\ sent' = Nothing
  /\ UNCHANGED <<running, bufferedAmount, connVars, clients, pendingAuth,
                 inflight, seq, presence, presenceVersion, healthVersion,
                 healthCache, probes, msgs, goodConnect>>

\* GatewayServer.close(), from the shutdown broadcast to clients.clear()
GatewayClose(b) ==
  /\ UNCHANGED restVars
  /\ running
  /\ running' = FALSE
  /\ Buffered(b, sock)
  /\ seq' = NextSeq(seq)
  /\ sent' = BOutbox(sock, BFrame("shutdown", seq', presenceVersion, healthVersion),
                       DropIfSlowOf("shutdown"))
  /\ LET sk == BSock(sock, DropIfSlowOf("shutdown")) IN
     /\ sock' = [c \in Conns |-> IF Registered(c) /\ sk[c] = "open" THEN "closing" ELSE sk[c]]
     /\ sockCode' = [c \in Conns |-> IF Registered(c) /\ sk[c] = "open"
                                     THEN CLOSE_SERVICE_RESTART
                                     ELSE BCode(sock, DropIfSlowOf("shutdown"))[c]]
     /\ sockReason' = [c \in Conns |-> IF Registered(c) /\ sk[c] = "open"
                                       THEN "service restart"
                                       ELSE BReason(sock, DropIfSlowOf("shutdown"))[c]]
  /\ chatRunRegistry' = [r \in Runs |-> 0]
  /\ chatRunBuffers' = {}
  /\ chatDeltaSentAt' = {}
  /\ abortedRuns' = [r \in Runs |-> NoTime]
  /\ chatStep' = {}
  /\ nodePresenceTimers' = {}
  /\ clients' = {}
  /\ UNCHANGED <<closed, handshakeState, closeCause,
                 handshakeTimer, client, pendingAuth, inflight, presence,
                 presenceVersion, healthVars, msgs, goodConnect, dedupeVars,
                 chatAbortControllers, nextRun, lastStart, bridge, bridgeNodes,
                 bridgeSubscriptions, bridgeSent>>

\* ------------------------------------------------- dedupe cache, chat runs
\* dedupe.has(k) / dedupe.get(k): the handlers' `seen`
DedupeHas(d, k) == \E i \in 1..Len(d) : d[i].k = k

DedupeTs(d, k) == (CHOOSE e \in {d[i] : i \in 1..Len(d)} : e.k = k).ts

\* dedupe.set(k, {ts}): a new key goes last, a known key keeps its place
DedupeSet(d, k, t) ==
  IF DedupeHas(d, k)
  THEN [i \in 1..Len(d) |-> IF d[i].k = k THEN [k |-> k, ts |-> t] ELSE d[i]]
  ELSE Append(d, [k |-> k, ts |-> t])

\* dedupe.delete(k)
DedupeDelete(d, k) == SelectSeq(d, LAMBDA e : e.k # k)

DedupeKeysOf(d) == {d[i].k : i \in 1..Len(d)}

\* mutant of Expired: the comparison never finds an entry too old
ExpiredNever(ts, t) == FALSE

\* now - v.ts > DEDUPE_TTL_MS
Expired(ts, t) == t - ts > DEDUPE_TTL_MS

\* the TTL purge loop of the sweep
PurgeExpired(d, t) == SelectSeq(d, LAMBDA e : ~Expired(e.ts, t))

\* [...dedupe.entries()].sort((a, b) => a[1].ts - b[1].ts): a stable sort
Rank(d, i) ==
  Cardinality({j \in 1..Len(d) : d[j].ts < d[i].ts \/ (d[j].ts = d[i].ts /\ j < i)}) + 1
SortByTs(d) == [r \in 1..Len(d) |-> d[CHOOSE i \in 1..Len(d) : Rank(d, i) = r]]

\* for (let i = 0; i < dedupe.size - DEDUPE_MAX; i++) dedupe.delete(entries[i][0]):
\* the bound of the loop is read again, from the shrinking map, at every turn
RECURSIVE EvictLoop(_, _, _)
EvictLoop(d, entries, i) ==
  IF i < Len(d) - DEDUPE_MAX
  THEN EvictLoop(DedupeDelete(d, entries[i + 1].k), entries, i + 1)
  ELSE d

\* the capacity branch of the sweep
EvictOldest(d) == IF Len(d) > DEDUPE_MAX THEN EvictLoop(d, SortByTs(d), 0) ELSE d

Active(r) == chatAbortControllers[r] # NoTime
Aborted(r) == abortedRuns[r] # NoTime

\* what a step reports: a response, a chat broadcast, or a deletion of the sweep
Did(kind, id) == [kind |-> kind, id |-> id]

\* abortChatRunById on the runs rs at time t: off the active table and the
\* registry, into the recently-aborted set, one "aborted" chat broadcast each
AbortControllers(rs) == [r \in Runs |-> IF r \in rs THEN NoTime ELSE chatAbortControllers[r]]
AbortRegistry(rs) == [r \in Runs |-> IF r \in rs THEN 0 ELSE chatRunRegistry[r]]
AbortAborted(rs, t) == [r \in Runs |-> IF r \in rs THEN t ELSE abortedRuns[r]]
AbortBroadcasts(rs) == {Did("aborted", r) : r \in rs}

\* mutant of Overdue: the sweep takes every active run for overdue
OverdueAll(t) == {r \in Runs : Active(r)}

\* if (now <= entry.expiresAtMs) continue
Overdue(t) == {r \in Runs : Active(r) /\ ~(t <= chatAbortControllers[r])}

\* mutant of RetentionOver: every record of an aborted run is dropped at once
RetentionOverAlways(abortedAt, t) == TRUE

\* if (now - abortedAt <= ABORTED_RUN_TTL_MS) continue
RetentionOver(abortedAt, t) == ~(t - abortedAt <= ABORTED_RUN_TTL_MS)

\* mutant of DeleteRuns: the entries of the forgotten runs are left behind
DeleteRunsForgotten(runs, stale) == runs

\* chatRunBuffers.delete(runId) and chatDeltaSentAt.delete(runId), for each
\* run whose aborted record is dropped
DeleteRuns(runs, stale) == runs \ stale

\* the clock advances
Tick ==
  /\ UNCHANGED restVars
  /\ now < MaxNow
  /\ now' = now + 1
  /\ chatStep' = {}
  /\ UNCHANGED <<running, bufferedAmount, connVars, clients, pendingAuth, inflight,
                 sent, seq, presence, presenceVersion, healthVars, msgs, goodConnect,
                 dedupe, chatAbortControllers, chatRunRegistry, abortedRuns,
                 chatRunBuffers, chatDeltaSentAt, nextRun, lastStart, bridgeVars>>

\* a handler remembers the key of a delivery it has handled
Remember(k) ==
  /\ UNCHANGED restVars
  /\ running
  /\ dedupe' = DedupeSet(dedupe, k, now)
  /\ chatStep' = {}
  /\ UNCHANGED <<running, bufferedAmount, connVars, clients, pendingAuth, inflight,
                 sent, seq, presence, presenceVersion, healthVars, msgs, goodConnect,
                 now, chatAbortControllers, chatRunRegistry, abortedRuns,
                 chatRunBuffers, chatDeltaSentAt, nextRun, lastStart, bridgeVars>>

\* the chat-send check: the key is in the dedupe cache or has an active run
ChatSeen(k) ==
  \/ DedupeHas(dedupe, k)
  \/ \E r \in Runs : Active(r) /\ chatRunRegistry[r] = k

\* a chat-send request with idempotency key k, from a connection or a bridge
\* node: both contexts hold the same dedupe map and chat tables
ChatSend(k) ==
  /\ UNCHANGED restVars
  /\ running
  /\ IF ChatSeen(k)
     THEN /\ chatStep' = {Did("cached", k)}
          /\ UNCHANGED <<dedupe, chatAbortControllers, chatRunRegistry, nextRun, lastStart>>
     ELSE /\ nextRun < MaxRuns
          /\ nextRun' = nextRun + 1
          /\ chatAbortControllers' = [chatAbortControllers EXCEPT ![nextRun'] = now + RunDeadline]
          /\ chatRunRegistry' = [chatRunRegistry EXCEPT ![nextRun'] = k]
          /\ dedupe' = DedupeSet(dedupe, k, now)
          /\ lastStart' = [lastStart EXCEPT ![k] = now]
          /\ chatStep' = {Did("started", nextRun')}
  /\ UNCHANGED <<running, bufferedAmount, connVars, clients, pendingAuth, inflight,
                 sent, seq, presence, presenceVersion, healthVars, msgs, goodConnect,
                 now, abortedRuns, chatRunBuffers, chatDeltaSentAt, bridgeVars>>

\* the agent event handler receives a delta for run r
AgentDelta(r) ==
  /\ UNCHANGED restVars
  /\ running
  /\ Active(r) \/ Aborted(r)
  /\ IF Aborted(r)
     THEN /\ chatStep' = {Did("ignored", r)}
          /\ UNCHANGED <<chatRunBuffers, chatDeltaSentAt>>
     ELSE /\ chatRunBuffers' = chatRunBuffers \cup {r}
          /\ chatDeltaSentAt' = chatDeltaSentAt \cup {r}
          /\ chatStep' = {Did("delta", r)}
  /\ UNCHANGED <<running, bufferedAmount, connVars, clients, pendingAuth, inflight,
                 sent, seq, presence, presenceVersion, healthVars, msgs, goodConnect,
                 dedupeVars, chatAbortControllers, chatRunRegistry, abortedRuns,
                 nextRun, lastStart, bridgeVars>>

\* the agent event handler receives the completion of run r
AgentEnd(r) ==
  /\ UNCHANGED restVars
  /\ running
  /\ Active(r) \/ Aborted(r)
  /\ IF Aborted(r)
     THEN /\ chatStep' = {Did("ignored", r)}
          /\ UNCHANGED <<chatAbortControllers, chatRunRegistry, chatRunBuffers,
                         chatDeltaSentAt>>
     ELSE /\ chatAbortControllers' = [chatAbortControllers EXCEPT ![r] = NoTime]
          /\ chatRunRegistry' = [chatRunRegistry EXCEPT ![r] = 0]
          /\ chatRunBuffers' = chatRunBuffers \ {r}
          /\ chatDeltaSentAt' = chatDeltaSentAt \ {r}
          /\ chatStep' = {Did("final", r)}
  /\ UNCHANGED <<running, bufferedAmount, connVars, clients, pendingAuth, inflight,
                 sent, seq, presence, presenceVersion, healthVars, msgs, goodConnect,
                 dedupeVars, abortedRuns, nextRun, lastStart, bridgeVars>>

\* an explicit abort request for the active run r
ChatAbort(r) ==
  /\ UNCHANGED restVars
  /\ running
  /\ Active(r)
  /\ chatAbortControllers' = AbortControllers({r})
  /\ chatRunRegistry' = AbortRegistry({r})
  /\ abortedRuns' = AbortAborted({r}, now)
  /\ chatStep' = AbortBroadcasts({r})
  /\ UNCHANGED <<running, bufferedAmount, connVars, clients, pendingAuth, inflight,
                 sent, seq, presence, presenceVersion, healthVars, msgs, goodConnect,
                 dedupeVars, chatRunBuffers, chatDeltaSentAt, nextRun, lastStart,
                 bridgeVars>>

\* the dedupeCleanup interval: TTL purge, capacity eviction, deadline aborts,
\* retention of the aborted runs
DedupeCleanup ==
  /\ UNCHANGED restVars
  /\ running
  /\ LET purged == PurgeExpired(dedupe, now)
         kept == EvictOldest(purged)
         overdue == Overdue(now)
         aborted == AbortAborted(overdue, now)
         stale == {r \in Runs : aborted[r] # NoTime /\ RetentionOver(aborted[r], now)}
     IN /\ dedupe' = kept
        /\ chatAbortControllers' = AbortControllers(overdue)
        /\ chatRunRegistry' = AbortRegistry(overdue)
        /\ abortedRuns' = [r \in Runs |-> IF r \in stale THEN NoTime ELSE aborted[r]]
        /\ chatRunBuffers' = DeleteRuns(chatRunBuffers, stale)
        /\ chatDeltaSentAt' = DeleteRuns(chatDeltaSentAt, stale)
        /\ chatStep' = {Did("purged", k) : k \in DedupeKeysOf(dedupe) \ DedupeKeysOf(purged)}
                         \cup {Did("evicted", k) : k \in DedupeKeysOf(purged) \ DedupeKeysOf(kept)}
                         \cup AbortBroadcasts(overdue)
                         \cup {Did("forgotten", r) : r \in stale}
  /\ UNCHANGED <<running, bufferedAmount, connVars, clients, pendingAuth, inflight,
                 sent, seq, presence, presenceVersion, healthVars, msgs, goodConnect,
                 now, nextRun, lastStart, bridgeVars>>

\* ------------------------------------------------------------ node bridge
\* mutant of stopNodePresenceTimer: the interval of the node is left running
stopNodePresenceTimerForgotten(timers, n) == timers

\* stopNodePresenceTimer(nodeId): clearInterval and delete
stopNodePresenceTimer(timers, n) == timers \ {n}

\* startNodePresenceTimer(node): stop the old interval, set a new one
startNodePresenceTimer(timers, n) == stopNodePresenceTimer(timers, n) \cup {n}

\* bridgeSubscriptions.subscribe(nodeId, sessionKey)
subscribe(subs, n, k) == [subs EXCEPT ![n] = @ \cup {k}]

\* bridgeSubscriptions.unsubscribe(nodeId, sessionKey)
unsubscribe(subs, n, k) == [subs EXCEPT ![n] = @ \ {k}]

\* mutant of unsubscribeAll: the subscriptions of the node are left in place
unsubscribeAllForgotten(subs, n) == subs

\* bridgeSubscriptions.unsubscribeAll(nodeId)
unsubscribeAll(subs, n) == [subs EXCEPT ![n] = {}]

\* a bridge event for session key k that reached node n
ToNode(n, k) == [node |-> n, key |-> k]

\* bridgeSendEvent: bridge?.sendEvent(opts)
bridgeSendEvent(targets) == IF bridge THEN targets ELSE {}

\* bridgeSendToSession: the manager sends to the nodes subscribed to the key
bridgeSendToSession(k) ==
  bridgeSendEvent({ToNode(n, k) : n \in {m \in BridgeNodeIds : k \in bridgeSubscriptions[m]}})

\* startNodeBridgeServer has resolved: the `bridge` variable is set
BridgeStart ==
  /\ UNCHANGED restVars
  /\ running
  /\ ~bridge
  /\ bridge' = TRUE
  /\ bridgeSent' = {}
  /\ sent' = Nothing
  /\ UNCHANGED <<running, bufferedAmount, connVars, clients, pendingAuth, inflight,
                 seq, presence, presenceVersion, healthVars, msgs, goodConnect,
                 dedupeVars, chatVars, bridgeNodes, bridgeSubscriptions,
                 nodePresenceTimers>>

\* onAuthenticated(node): the node is announced; the voicewake.changed event
\* that follows the await goes to the node alone and carries no session key
NodeAuthenticated(n) ==
  /\ UNCHANGED restVars
  /\ bridge
  /\ n \notin bridgeNodes
  /\ seq < MaxNodeEvents
  /\ bridgeNodes' = bridgeNodes \cup {n}
  /\ beaconNodePresence(NodeKeyOf(n), "node-connected", bufferedAmount)
  /\ nodePresenceTimers' = startNodePresenceTimer(nodePresenceTimers, n)
  /\ bridgeSent' = {}
  /\ UNCHANGED <<dedupeVars, chatVars, bridge, bridgeSubscriptions>>

\* onDisconnected(node): unsubscribe from everything, announce
NodeDisconnected(n) ==
  /\ UNCHANGED restVars
  /\ n \in bridgeNodes
  /\ seq < MaxNodeEvents
  /\ bridgeNodes' = bridgeNodes \ {n}
  /\ bridgeSubscriptions' = unsubscribeAll(bridgeSubscriptions, n)
  /\ nodePresenceTimers' = stopNodePresenceTimer(nodePresenceTimers, n)
  /\ beaconNodePresence(NodeKeyOf(n), "node-disconnected", bufferedAmount)
  /\ bridgeSent' = {}
  /\ UNCHANGED <<dedupeVars, chatVars, bridge>>

\* the presence interval of node n fires
NodePresenceTimer(n) ==
  /\ UNCHANGED restVars
  /\ n \in nodePresenceTimers
  /\ seq < MaxNodeEvents
  /\ beaconNodePresence(NodeKeyOf(n), "periodic", bufferedAmount)
  /\ bridgeSent' = {}
  /\ UNCHANGED <<dedupeVars, chatVars, bridge, bridgeNodes, bridgeSubscriptions,
                 nodePresenceTimers>>

\* onAuthenticated(node) for a node id that is still connected: the node has
\* come back on a new connection before its old one was reported closed
NodeReconnected(n) ==
  /\ UNCHANGED <<startVars, legacyVars, reloadVars, truncVars, webVars, wizVars>>
  /\ bridge
  /\ n \in bridgeNodes
  /\ n \notin staleNodes
  /\ seq < MaxNodeEvents
  /\ staleNodes' = staleNodes \cup {n}
  /\ beaconNodePresence(NodeKeyOf(n), "node-connected", bufferedAmount)
  /\ nodePresenceTimers' = startNodePresenceTimer(nodePresenceTimers, n)
  /\ bridgeSent' = {}
  /\ UNCHANGED <<dedupeVars, chatVars, bridge, bridgeNodes, bridgeSubscriptions>>

\* onDisconnected(node) for the old connection of a node that has come back
StaleNodeDisconnected(n) ==
  /\ UNCHANGED <<startVars, legacyVars, reloadVars, truncVars, webVars, wizVars>>
  /\ n \in staleNodes
  /\ seq < MaxNodeEvents
  /\ staleNodes' = staleNodes \ {n}
  /\ bridgeSubscriptions' = unsubscribeAll(bridgeSubscriptions, n)
  /\ nodePresenceTimers' = stopNodePresenceTimer(nodePresenceTimers, n)
  /\ beaconNodePresence(NodeKeyOf(n), "node-disconnected", bufferedAmount)
  /\ bridgeSent' = {}
  /\ UNCHANGED <<dedupeVars, chatVars, bridge, bridgeNodes>>

\* a connected node subscribes to a session key
BridgeSubscribe(n, k) ==
  /\ UNCHANGED restVars
  /\ running
  /\ n \in bridgeNodes
  /\ bridgeSubscriptions' = subscribe(bridgeSubscriptions, n, k)
  /\ bridgeSent' = {}
  /\ sent' = Nothing
  /\ UNCHANGED <<running, bufferedAmount, connVars, clients, pendingAuth, inflight,
                 seq, presence, presenceVersion, healthVars, msgs, goodConnect,
                 dedupeVars, chatVars, bridge, bridgeNodes, nodePresenceTimers>>

\* a connected node unsubscribes from a session key
BridgeUnsubscribe(n, k) ==
  /\ UNCHANGED restVars
  /\ running
  /\ n \in bridgeNodes
  /\ bridgeSubscriptions' = unsubscribe(bridgeSubscriptions, n, k)
  /\ bridgeSent' = {}
  /\ sent' = Nothing
  /\ UNCHANGED <<running, bufferedAmount, connVars, clients, pendingAuth, inflight,
                 seq, presence, presenceVersion, healthVars, msgs, goodConnect,
                 dedupeVars, chatVars, bridge, bridgeNodes, nodePresenceTimers>>

\* a handler mirrors a session event to the bridge: bridgeSendToSession(k, ...)
SendToSession(k) ==
  /\ UNCHANGED restVars
  /\ running
  /\ bridgeSent' = bridgeSendToSession(k)
  /\ sent' = Nothing
  /\ UNCHANGED <<running, bufferedAmount, connVars, clients, pendingAuth, inflight,
                 seq, presence, presenceVersion, healthVars, msgs, goodConnect,
                 dedupeVars, chatVars, bridge, bridgeNodes, bridgeSubscriptions,
                 nodePresenceTimers>>

\* ------------------------------------------------------------------ startup
\* assertGatewayAuthConfigured(resolvedAuth) throws
AuthNotConfigured(cfg) == ~cfg.authConfigured

\* tailscaleMode === "funnel" && authMode !== "password"
FunnelNeedsPassword(cfg) == cfg.tailscaleMode = "funnel" /\ cfg.authMode # "password"

\* tailscaleMode !== "off" && !isLoopbackHost(bindHost)
TailscaleNeedsLoopback(cfg) == cfg.tailscaleMode # "off" /\ ~cfg.loopback

\* mutant of OpenBindWithoutAuth: the check is missing
OpenBindWithoutAuthAllowed(cfg) == FALSE

\* !isLoopbackHost(bindHost) && authMode === "none"
OpenBindWithoutAuth(cfg) == ~cfg.loopback /\ cfg.authMode = "none"

\* the checks of startGatewayServer before anything is created
StartThrows(cfg) ==
  \/ AuthNotConfigured(cfg)
  \/ FunnelNeedsPassword(cfg)
  \/ TailscaleNeedsLoopback(cfg)
  \/ OpenBindWithoutAuth(cfg)

\* startGatewayServer up to the checks: it throws or goes on
StartChecks ==
  /\ serving = "starting"
  /\ serving' = IF StartThrows(startCfg) THEN "failed" ELSE "checked"
  /\ sent' = Nothing
  /\ UNCHANGED <<running, bufferedAmount, connVars, clients, pendingAuth, inflight,
                 seq, presence, presenceVersion, healthVars, msgs, goodConnect,
                 dedupeVars, chatVars, bridgeVars, startCfg, legacyVars, reloadVars,
                 auxVars>>

\* httpServer.listen(port, bindHost): "listening", or "error" and GatewayLockError
StartListen ==
  /\ serving = "checked"
  /\ serving' = IF startCfg.portBusy THEN "failed" ELSE "listening"
  /\ sent' = Nothing
  /\ UNCHANGED <<running, bufferedAmount, connVars, clients, pendingAuth, inflight,
                 seq, presence, presenceVersion, healthVars, msgs, goodConnect,
                 dedupeVars, chatVars, bridgeVars, startCfg, legacyVars, reloadVars,
                 auxVars>>

\* --------------------------------------------------------- legacy migration
\* mutant of AuthTokenUndefined: gateway.auth.token is taken as absent always
AuthTokenUndefinedAlways(token) == TRUE

\* auth.token === undefined
AuthTokenUndefined(token) == token = "undef"

\* !auth.mode
NoMode(mode) == mode \in {"undef", ""}

\* the migration gateway.token->gateway.auth.token applied to the clone: the
\* config it leaves and the changes it pushes
MoveGatewayToken(raw) ==
  IF raw.gateway # "obj" \/ raw.token = "undef"
  THEN [config |-> raw, changes |-> << >>]
  ELSE LET authToken == IF raw.auth = "obj" THEN raw.authToken ELSE "undef"
           authMode == IF raw.auth = "obj" THEN raw.authMode ELSE "undef"
       IN IF AuthTokenUndefined(authToken)
          THEN [config |-> [raw EXCEPT !.token = "undef", !.auth = "obj",
                                       !.authToken = raw.token,
                                       !.authMode = IF NoMode(authMode) THEN "token"
                                                    ELSE authMode],
                changes |-> <<"Moved gateway.token -> gateway.auth.token.">>]
          ELSE [config |-> [raw EXCEPT !.token = "undef"],
                changes |-> <<"Removed gateway.token (gateway.auth.token already set).">>]

\* applyLegacyMigrations(raw), as far as gateway.token goes: the migrations
\* work on a structuredClone, and `next` is null when nothing changed
applyLegacyMigrations(raw) ==
  IF raw.root # "obj"
  THEN [next |-> NullConfig, changes |-> << >>]
  ELSE LET r == MoveGatewayToken(raw)
       IN IF Len(r.changes) = 0
          THEN [next |-> NullConfig, changes |-> << >>]
          ELSE [next |-> r.config, changes |-> r.changes]

\* the startup (or the doctor) migrates the raw config it read
ApplyLegacyMigrations ==
  /\ ~legacyDone
  /\ legacyDone' = TRUE
  /\ next' = applyLegacyMigrations(rawConfig).next
  /\ changes' = applyLegacyMigrations(rawConfig).changes
  /\ sent' = Nothing
  /\ UNCHANGED <<running, bufferedAmount, connVars, clients, pendingAuth, inflight,
                 seq, presence, presenceVersion, healthVars, msgs, goodConnect,
                 dedupeVars, chatVars, bridgeVars, startVars, rawConfig, reloadVars,
                 auxVars>>

\* ------------------------------------------------------------ config reload
\* the reload plans that reach requestGatewayRestart: with restart reasons, or
\* with changed paths only
ReloadPlans ==
  [restartReasons : {<< >>, <<"gateway.port">>}, changedPaths : {<<"gateway">>}]

\* plan.restartReasons.length ? plan.restartReasons : plan.changedPaths
ReasonsOf(plan) ==
  IF Len(plan.restartReasons) # 0 THEN plan.restartReasons ELSE plan.changedPaths

\* the warnings of logReload
RestartRequired(plan) ==
  [msg |-> "config change requires gateway restart", reasons |-> ReasonsOf(plan)]
RestartSkipped(plan) ==
  [msg |-> "no SIGUSR1 listener found; restart skipped", reasons |-> << >>]

\* mutant of NoRestartListener: the signal is emitted whoever listens
NoRestartListenerNever(count) == FALSE

\* process.listenerCount("SIGUSR1") === 0
NoRestartListener(count) == count = 0

\* the process that runs the gateway installs its SIGUSR1 handler
AddRestartListener ==
  /\ sigusr1Listeners < MaxListeners
  /\ sigusr1Listeners' = sigusr1Listeners + 1
  /\ sent' = Nothing
  /\ UNCHANGED <<running, bufferedAmount, connVars, clients, pendingAuth, inflight,
                 seq, presence, presenceVersion, healthVars, msgs, goodConnect,
                 dedupeVars, chatVars, bridgeVars, startVars, legacyVars,
                 restartSignals, reloadLog, auxVars>>

\* the process that runs the gateway removes its SIGUSR1 handler
RemoveRestartListener ==
  /\ sigusr1Listeners > 0
  /\ sigusr1Listeners' = sigusr1Listeners - 1
  /\ sent' = Nothing
  /\ UNCHANGED <<running, bufferedAmount, connVars, clients, pendingAuth, inflight,
                 seq, presence, presenceVersion, healthVars, msgs, goodConnect,
                 dedupeVars, chatVars, bridgeVars, startVars, legacyVars,
                 restartSignals, reloadLog, auxVars>>

\* requestGatewayRestart(plan, nextConfig): the reloader's onRestart
RequestGatewayRestart(plan) ==
  /\ running
  /\ restartSignals < MaxRestarts
  /\ IF NoRestartListener(sigusr1Listeners)
     THEN /\ reloadLog' = <<RestartRequired(plan), RestartSkipped(plan)>>
          /\ UNCHANGED restartSignals
     ELSE /\ reloadLog' = <<RestartRequired(plan)>>
          /\ restartSignals' = restartSignals + 1
  /\ sent' = Nothing
  /\ UNCHANGED <<running, bufferedAmount, connVars, clients, pendingAuth, inflight,
                 seq, presence, presenceVersion, healthVars, msgs, goodConnect,
                 dedupeVars, chatVars, bridgeVars, startVars, legacyVars,
                 sigusr1Listeners, auxVars>>

\* ------------------------------------------------------------ close reason
\* the UTF-8 encoding of U+FFFD, the replacement character, has three bytes
REPLACEMENT == 3

\* the literal "invalid handshake": 17 one-byte characters
InvalidHandshakeReason == [i \in 1..17 |-> 1]

\* Buffer.from(reason): the UTF-8 bytes; a byte knows the width of its
\* character and its place in it
RECURSIVE Utf8(_)
Utf8(str) ==
  IF str = << >> THEN << >>
  ELSE [k \in 1..Head(str) |-> [w |-> Head(str), k |-> k]] \o Utf8(Tail(str))

\* buf.toString(): whole characters decode to themselves, and the bytes of a
\* character that is cut short at the end decode to one U+FFFD
RECURSIVE Utf8Decode(_)
Utf8Decode(buf) ==
  IF buf = << >> THEN << >>
  ELSE IF Len(buf) >= buf[1].w
       THEN <<buf[1].w>> \o Utf8Decode(SubSeq(buf, buf[1].w + 1, Len(buf)))
       ELSE <<REPLACEMENT>>

\* truncateCloseReason(reason, maxBytes)
truncateCloseReason(str, cap) ==
  IF str = << >> THEN InvalidHandshakeReason
  ELSE IF Len(Utf8(str)) <= cap THEN str
  ELSE Utf8Decode(SubSeq(Utf8(str), 1, cap))

\* a call of truncateCloseReason
TruncateCloseReason ==
  /\ truncated = NotCalled
  /\ truncated' = truncateCloseReason(rawReason, maxBytes)
  /\ sent' = Nothing
  /\ UNCHANGED <<running, bufferedAmount, connVars, clients, pendingAuth, inflight,
                 seq, presence, presenceVersion, healthVars, msgs, goodConnect,
                 dedupeVars, chatVars, bridgeVars, startVars, legacyVars,
                 reloadVars, rawReason, maxBytes, staleNodes, webVars, wizVars>>

\* the gateway's own state, which the WebChat page does not touch
gatewayVars == <<running, bufferedAmount, connVars, clients, pendingAuth, inflight,
                 sent, seq, presence, presenceVersion, healthVars, msgs,
                 goodConnect, dedupeVars, chatVars, bridgeVars, startVars,
                 legacyVars, reloadVars, truncVars, staleNodes>>

\* resolve or reject of a promise: the first call settles it, later calls do nothing
SettlePromise(p, outcome) == IF p = "pending" THEN outcome ELSE p

\* `if (this.pending.has(id))` of the timeout callback
TimerGuardAlways(id) == TRUE
TimerGuard(id) == id \in webPending

\* connect(): new WebSocket(url) and the promise it returns
WebConnect ==
  /\ wsReady = "none"
  /\ wsReady' = "connecting"
  /\ connectPromise' = "pending"
  /\ UNCHANGED <<gatewayVars, wizVars, webPending, webTimers, webIssued, webCalls, received>>

\* ws.onopen: the hello is sent
WebOpen ==
  /\ wsReady = "connecting"
  /\ wsReady' = "open"
  /\ UNCHANGED <<gatewayVars, wizVars, connectPromise, webPending, webTimers, webIssued,
                 webCalls, received>>

\* ws.onerror
WebError ==
  /\ wsReady \in {"connecting", "open"}
  /\ connectPromise' = SettlePromise(connectPromise, "rejected")
  /\ UNCHANGED <<gatewayVars, wizVars, wsReady, webPending, webTimers, webIssued, webCalls,
                 received>>

\* ws.onclose with a close code
WebClose(code) ==
  /\ wsReady \in {"connecting", "open"}
  /\ wsReady' = "closed"
  /\ webCalls' = [id \in WebIds |->
                    IF id \in webPending THEN Append(webCalls[id], "closed")
                    ELSE webCalls[id]]
  /\ webPending' = {}
  /\ connectPromise' = IF code # 1000 THEN SettlePromise(connectPromise, "rejected")
                       ELSE connectPromise
  /\ UNCHANGED <<gatewayVars, wizVars, webTimers, webIssued, received>>

\* ws.onmessage
WebMessage(m) ==
  /\ wsReady = "open"
  /\ Len(received) < MaxWebMsgs
  /\ m.id <= webIssued
  /\ received' = Append(received, m)
  /\ connectPromise' = IF m.kind = "hello-ok"
                       THEN SettlePromise(connectPromise, "resolved")
                       ELSE connectPromise
  /\ IF m.kind = "res" /\ m.id \in webPending
     THEN /\ webPending' = webPending \ {m.id}
          /\ webCalls' = [webCalls EXCEPT ![m.id] =
                            Append(@, IF m.ok THEN "resolved" ELSE "rejected")]
     ELSE UNCHANGED <<webPending, webCalls>>
  /\ UNCHANGED <<gatewayVars, wizVars, wsReady, webTimers, webIssued>>

\* request(method, params) on an open socket; on any other it throws before it
\* sends or registers anything
WebRequest ==
  /\ wsReady = "open"
  /\ webIssued < MaxReqs
  /\ webIssued' = webIssued + 1
  /\ webPending' = webPending \cup {webIssued + 1}
  /\ webTimers' = webTimers \cup {webIssued + 1}
  /\ UNCHANGED <<gatewayVars, wizVars, wsReady, connectPromise, webCalls, received>>

\* the setTimeout callback of request()
WebTimeout(id) ==
  /\ id \in webTimers
  /\ webTimers' = webTimers \ {id}
  /\ IF TimerGuard(id)
     THEN /\ webPending' = webPending \ {id}
          /\ webCalls' = [webCalls EXCEPT ![id] = Append(@, "timeout")]
     ELSE UNCHANGED <<webPending, webCalls>>
  /\ UNCHANGED <<gatewayVars, wizVars, wsReady, connectPromise, webIssued, received>>

\* the WebChat page's GatewaySocket
WebNext ==
  \/ WebConnect
  \/ WebOpen
  \/ WebError
  \/ \E code \in CloseCodes : WebClose(code)
  \/ \E m \in WebMessages : WebMessage(m)
  \/ WebRequest
  \/ \E id \in WebIds : WebTimeout(id)

\* "Tailscale requires bind=loopback. Adjusting bind to loopback."
AdjustBind(bind, tailscaleMode) ==
  IF tailscaleMode # "off" /\ bind # "loopback" THEN "loopback" ELSE bind

\* "Non-loopback bind requires auth. Switching to token auth.", then
\* "Tailscale funnel requires password auth."
AdjustAuth(authMode, bind, tailscaleMode) ==
  LET a == IF authMode = "off" /\ bind # "loopback" THEN "token" ELSE authMode
  IN IF tailscaleMode = "funnel" /\ a # "password" THEN "password" ELSE a

\* buildGatewayAuthConfig({existing, mode, token, password}): only
\* allowTailscale is taken from the existing block
buildGatewayAuthConfig(existing, mode) ==
  IF mode = "off" THEN NoAuth
  ELSE IF mode = "token" THEN [mode |-> "token", token |-> TRUE, password |-> FALSE]
  ELSE [mode |-> "password", token |-> FALSE, password |-> TRUE]

\* the onboarding wizard's auth block: { ...nextConfig.gateway?.auth, mode, token }
\* or { ...nextConfig.gateway?.auth, mode, password }, and the existing block
\* as it is when auth is off
OnboardingAuth(existing, mode) ==
  IF mode = "off" THEN existing
  ELSE IF mode = "token" THEN [existing EXCEPT !.mode = "token", !.token = TRUE]
  ELSE [existing EXCEPT !.mode = "password", !.password = TRUE]

\* promptGatewayConfig of the configure wizard
PromptGatewayConfig ==
  /\ wizard = "none"
  /\ wizard' = "configure"
  /\ LET bind == AdjustBind(wizInput.bind, wizInput.tailscaleMode)
         authMode == AdjustAuth(wizInput.authMode, bind, wizInput.tailscaleMode)
     IN written' = [bind |-> bind,
                    auth |-> buildGatewayAuthConfig(wizInput.existing, authMode),
                    tailscaleMode |-> wizInput.tailscaleMode]
  /\ UNCHANGED <<gatewayVars, webVars, wizInput>>

\* the gateway questions of runOnboardingWizard
RunOnboardingWizard ==
  /\ wizard = "none"
  /\ wizard' = "onboard"
  /\ LET bind == AdjustBind(wizInput.bind, wizInput.tailscaleMode)
         authMode == AdjustAuth(wizInput.authMode, bind, wizInput.tailscaleMode)
     IN written' = [bind |-> bind,
                    auth |-> OnboardingAuth(wizInput.existing, authMode),
                    tailscaleMode |-> wizInput.tailscaleMode]
  /\ UNCHANGED <<gatewayVars, webVars, wizInput>>

\* what startGatewayServer makes of a written gateway section: a block
\* without a mode counts as no auth, a bind other than loopback as not loopback
WrittenStartCfg(w) ==
  [loopback |-> w.bind = "loopback",
   authMode |-> IF w.auth.mode = "undef" THEN "none" ELSE w.auth.mode,
   authConfigured |-> TRUE, tailscaleMode |-> w.tailscaleMode, portBusy |-> FALSE]

WizardNext ==
  \/ PromptGatewayConfig
  \/ RunOnboardingWizard

\* the frames of the handshake and dispatch scenarios (no instance ids)
ConnFrames == {f \in Frames : f.inst = 0}

\* the connection manager and the request dispatcher: handshake, dispatch, teardown
ConnNext ==
  \/ \E c \in Conns : Accept(c)
  \/ \E c \in Conns, f \in ConnFrames : Total < MaxMsgs /\ RecvUnparseable(c, f)
  \/ \E c \in Conns, f \in ConnFrames : Total < MaxMsgs /\ RecvInvalidHandshake(c, f)
  \/ \E c \in Conns, f \in ConnFrames : Total < MaxMsgs /\ RecvConnectMismatch(c, f)
  \/ \E c \in Conns, f \in ConnFrames : Total < MaxMsgs /\ RecvConnect(c, f)
  \/ \E p \in pendingAuth : AuthDeny(p)
  \/ \E p \in pendingAuth : AuthAllow(p)
  \/ \E c \in Conns, f \in ConnFrames : Total < MaxMsgs /\ RecvInvalidFrame(c, f)
  \/ \E c \in Conns, f \in ConnFrames : Total < MaxMsgs /\ RecvRequest(c, f)
  \/ \E r \in inflight : HandlerRespond(r)
  \/ \E r \in inflight : HandlerThrow(r)
  \/ \E c \in Conns : HandshakeTimeout(c)
  \/ \E c \in Conns : SocketError(c)
  \/ \E c \in Conns : SocketCloseEvent(c, bufferedAmount)

\* the event broadcaster: timers, collaborators, health refresh and shutdown
BroadcastNext ==
  \/ \E e \in ExternalEvents, b \in [Conns -> BufferLevels] : EmitEvent(e, b)
  \/ \E r \in NodeReasons, b \in [Conns -> BufferLevels] : BeaconNodePresence(r, b)
  \/ HealthTimer
  \/ \E b \in [Conns -> BufferLevels] : ProbeResolve(b)
  \/ ProbeReject
  \/ \E b \in [Conns -> BufferLevels] : GatewayClose(b)

Next ==
  \/ ConnNext
  \/ \E c \in Conns, f \in Frames : Total < MaxMsgs /\ RecvConnect(c, f)
  \/ \E c \in Conns, b \in [Conns -> BufferLevels] : SocketCloseEvent(c, b)
  \/ BroadcastNext

\* the connect requests of the fan-out scenarios: accepted by the resolver,
\* without instance ids
FanoutFrames == {f \in ConnectFrames : f.authOk /\ f.inst = 0 /\ f.min = 1 /\ f.max = 2}

\* the broadcaster with the connections that register, leave and are shut down
FanoutNext ==
  \/ \E c \in Conns : Accept(c)
  \/ \E c \in Conns, f \in FanoutFrames : Total < MaxConnects /\ RecvConnect(c, f)
  \/ \E p \in pendingAuth : AuthAllow(p)
  \/ \E c \in Conns, b \in [Conns -> BufferLevels] : SocketCloseEvent(c, b)
  \/ BroadcastNext

\* the dedupe cache alone: keys are remembered, the clock advances, the sweep runs
DedupeNext ==
  \/ Tick
  \/ \E k \in DedupeKeys : Remember(k)
  \/ DedupeCleanup

\* the dedupe cache and the chat runs, with the sweep and the shutdown; other
\* deliveries fill the cache up to one entry over its capacity
ChatNext ==
  \/ Tick
  \/ \E k \in DedupeKeys \ IdemKeys : Len(dedupe) <= DEDUPE_MAX /\ Remember(k)
  \/ \E k \in IdemKeys : ChatSend(k)
  \/ \E r \in Runs : AgentDelta(r)
  \/ \E r \in Runs : AgentEnd(r)
  \/ \E r \in Runs : ChatAbort(r)
  \/ DedupeCleanup
  \/ GatewayClose(bufferedAmount)

\* the node bridge: nodes come and go, subscribe and unsubscribe, and session
\* events are mirrored to them
BridgeNext ==
  \/ BridgeStart
  \/ \E n \in BridgeNodeIds : NodeAuthenticated(n)
  \/ \E n \in BridgeNodeIds : NodeDisconnected(n)
  \/ \E n \in BridgeNodeIds : NodePresenceTimer(n)
  \/ \E n \in BridgeNodeIds, k \in SessionKeys : BridgeSubscribe(n, k)
  \/ \E n \in BridgeNodeIds, k \in SessionKeys : BridgeUnsubscribe(n, k)
  \/ \E k \in SessionKeys : SendToSession(k)

\* startGatewayServer, and the connections the started gateway accepts
StartNext ==
  \/ StartChecks
  \/ StartListen
  \/ \E c \in Conns : serving = "listening" /\ Accept(c)
  \/ \E c \in Conns : SocketCloseEvent(c, bufferedAmount)

\* the legacy migration of a raw config
LegacyNext == ApplyLegacyMigrations

\* the config reloader asks for restarts while connections come and go
ReloadNext ==
  \/ AddRestartListener
  \/ RemoveRestartListener
  \/ \E plan \in ReloadPlans : RequestGatewayRestart(plan)
  \/ \E c \in Conns : Accept(c)
  \/ \E c \in Conns, f \in ConnFrames : Total < MaxMsgs /\ RecvConnect(c, f)
  \/ \E pa \in pendingAuth : AuthAllow(pa)
  \/ \E c \in Conns : SocketCloseEvent(c, bufferedAmount)

\* the close reason of a handshake failure is capped
TruncNext == TruncateCloseReason

\* the node bridge with nodes that come back before their old connection is
\* reported closed
ReconnectNext ==
  \/ BridgeNext
  \/ \E n \in BridgeNodeIds : NodeReconnected(n)
  \/ \E n \in BridgeNodeIds : StaleNodeDisconnected(n)

\* the whole gateway; every behaviour of ConnSpec and of FanoutSpec is one of Spec
Spec == Init /\ [][Next]_vars
ConnSpec == Init /\ [][ConnNext]_vars
FanoutSpec == Init /\ [][FanoutNext]_vars
DedupeSpec == Init /\ [][DedupeNext]_vars
ChatSpec == Init /\ [][ChatNext]_vars
BridgeSpec == Init /\ [][BridgeNext]_vars
StartSpec == StartInit /\ [][StartNext]_vars
LegacySpec == LegacyInit /\ [][LegacyNext]_vars
ReloadSpec == Init /\ [][ReloadNext]_vars
TruncSpec == TruncInit /\ [][TruncNext]_vars
ReconnectSpec == Init /\ [][ReconnectNext]_vars
WebSpec == Init /\ [][WebNext]_vars
WizardSpec == WizardInit /\ [][WizardNext]_vars
\* a socket that has been created is closed in the end: the gateway's handshake
\* timer closes a connection whose handshake does not complete, and a
\* connection that is lost is reported closed
WebLiveSpec == WebSpec /\ WF_vars(\E code \in CloseCodes : WebClose(code))

TypeOK ==
  /\ running \in BOOLEAN
  /\ \A c \in Conns : sock[c] \in {"idle", "open", "closing", "closed"}
  /\ \A c \in Conns : handshakeState[c] \in {"pending", "connected", "failed"}
  /\ seq \in Nat

\* ================================================================= claims
\* the frames the step wrote to socket c
Written(c) == {sent'[c][i] : i \in 1..Len(sent'[c])}

\* the step wrote to socket c exactly one response frame, for request id
OneResponse(c, id) ==
  /\ Len(sent'[c]) = 1
  /\ sent'[c][1].t = "res"
  /\ sent'[c][1].id = id

\* ---------------------------------------------------------------------- C1
\* C1 as stated: every request dispatched after the handshake is answered
\* with exactly one response frame carrying its id, whichever way its handler
\* ends: never zero frames, never two.
C1_ExactlyOneResponse ==
  [][\A r \in inflight : r \notin inflight' => OneResponse(r.conn, r.id)]_vars

\* C1 amended: a dispatched request is answered at most once on every handler
\* path; with exactly one response frame carrying its id when the socket is
\* still open as the handler settles, with no frame when the socket has been
\* closed in the meantime.  A response is never written for a request that
\* stays in flight, and a request the handler table does not know is answered
\* at once.
C1_OneResponseWhileOpen ==
  [][/\ \A r \in inflight : r \notin inflight' =>
          IF sock[r.conn] = "open"
          THEN OneResponse(r.conn, r.id)
          ELSE sent'[r.conn] = << >>
     /\ \A c \in Conns : \A fr \in Written(c) :
          fr.t = "res" =>
            /\ Len(sent'[c]) = 1
            /\ ~\E r \in inflight' : r.conn = c /\ r.id = fr.id
     /\ \A c \in Conns : msgs'[c] # msgs[c] /\ client[c] # NoClient =>
          \A f \in OtherReqFrames : f.id = Total + 1 /\ RecvRequest(c, f) =>
            \/ /\ [conn |-> c, id |-> f.id, method |-> f.method] \in inflight' \ inflight
               /\ sent'[c] = << >>
            \/ /\ inflight' = inflight
               /\ IF sock[c] = "open" THEN OneResponse(c, f.id) ELSE sent'[c] = << >>]_vars

\* C1 witness: the catch of a failed handler has answered one request of a
\* connection while another request of the same connection is still in flight
C1_Witness ==
  \E r \in inflight :
    /\ Len(sent[r.conn]) = 1
    /\ sent[r.conn][1].t = "res"
    /\ sent[r.conn][1].code = "UNAVAILABLE"
    /\ sent[r.conn][1].id # r.id

\* ---------------------------------------------------------------------- C2
\* the step is a call of broadcast
BroadcastStep ==
  \/ \E e \in ExternalEvents : EmitEvent(e, bufferedAmount')
  \/ \E r \in NodeReasons : BeaconNodePresence(r, bufferedAmount')
  \/ ProbeResolve(bufferedAmount')
  \/ GatewayClose(bufferedAmount')
  \/ \E c \in Conns : /\ client[c] # NoClient
                      /\ client[c].key # NoKey
                      /\ SocketCloseEvent(c, bufferedAmount')

\* C2: the sequence counter never decreases; every call of broadcast takes a
\* number strictly greater than every number taken before, and every event
\* frame written carries the number its broadcast took, so no number is reused.
C2_SeqStrictlyIncreasing ==
  [][/\ seq' >= seq
     /\ BroadcastStep => seq' > seq
     /\ \A c \in Conns : \A fr \in Written(c) :
          fr.t = "event" => seq' > seq /\ fr.seq = seq']_vars

\* C2 witness: a third or later broadcast, a health event, has reached a socket
\* with the current sequence number
C2_Witness ==
  /\ seq >= 3
  /\ \E c \in Conns : /\ Len(sent[c]) >= 1
                      /\ sent[c][1].t = "event"
                      /\ sent[c][1].msg = "health"
                      /\ sent[c][1].seq = seq

\* ---------------------------------------------------------------------- C3
\* what a broadcast with option drop does to the registered sockets that are
\* over MAX_BUFFERED_BYTES; sk is the readyState of the sockets as the loop runs
SlowConsumerPolicy(sk, drop) ==
  \A c \in Conns : Registered(c) /\ IsSlow(bufferedAmount'[c]) =>
    /\ sent'[c] = << >>
    /\ drop => sock'[c] = sk[c]
    /\ ~drop => /\ sock'[c] # "open"
                /\ sk[c] = "open" => /\ sockCode'[c] = CLOSE_POLICY_VIOLATION
                                     /\ sockReason'[c] = "slow consumer"

\* C3: a registered connection whose bufferedAmount exceeds MAX_BUFFERED_BYTES
\* when an event is broadcast is never sent that event; with dropIfSlow its
\* socket is left as it is, without dropIfSlow its socket is closed with code
\* 1008 and reason "slow consumer"; it is never both kept open and sent the event.
C3_SlowConsumerPolicy ==
  [][/\ \A e \in ExternalEvents :
          EmitEvent(e, bufferedAmount') => SlowConsumerPolicy(sock, DropIfSlowOf(e))
     /\ \A r \in NodeReasons :
          BeaconNodePresence(r, bufferedAmount')
            => SlowConsumerPolicy(sock, DropIfSlowOf("presence"))
     /\ ProbeResolve(bufferedAmount') => SlowConsumerPolicy(sock, DropIfSlowOf("health"))
     /\ GatewayClose(bufferedAmount') => SlowConsumerPolicy(sock, DropIfSlowOf("shutdown"))
     /\ \A c \in Conns :
          client[c] # NoClient /\ client[c].key # NoKey /\ SocketCloseEvent(c, bufferedAmount')
            => SlowConsumerPolicy([sock EXCEPT ![c] = "closed"], DropIfSlowOf("presence"))]_vars

\* C3 witness: a health broadcast has closed a slow socket with 1008 "slow
\* consumer" without writing to it and has delivered the event to another socket
C3_Witness ==
  \E c, d \in Conns :
    /\ c # d
    /\ IsSlow(bufferedAmount[c])
    /\ sock[c] = "closing"
    /\ sockCode[c] = CLOSE_POLICY_VIOLATION
    /\ sockReason[c] = "slow consumer"
    /\ sent[c] = << >>
    /\ Len(sent[d]) = 1
    /\ sent[d][1].msg = "health"

\* ---------------------------------------------------------------------- C4
\* C4 as stated: while one registered connection is over the threshold and
\* another is under it, every droppable event reaches the healthy connection
\* exactly once, with a sequence number above all earlier ones, and reaches the
\* slow connection not at all.
C4_HealthyReceivesEachOnce ==
  [][\A e \in ExternalEvents : DropIfSlowOf(e) /\ EmitEvent(e, bufferedAmount') =>
       /\ seq' > seq
       /\ \A c \in Conns : Registered(c) /\ sock[c] = "open" =>
            IF IsSlow(bufferedAmount'[c])
            THEN sent'[c] = << >>
            ELSE /\ Len(sent'[c]) = 1
                 /\ sent'[c][1].t = "event"
                 /\ sent'[c][1].msg = e
                 /\ sent'[c][1].seq = seq']_vars

\* ---------------------------------------------------------------------- C5
\* every registered open socket either got the event or was closed with 1008
DeliveredOrDisconnected ==
  \A c \in Conns : Registered(c) /\ sock[c] = "open" =>
    \/ Len(sent'[c]) >= 1
    \/ sock'[c] # "open" /\ sockCode'[c] = CLOSE_POLICY_VIOLATION

\* C5 as stated: the shutdown notice and the node pairing-request event are
\* never silently skipped: each registered connection either receives the
\* event or, being a slow consumer, is closed.
C5_NeverSilentlySkipped ==
  [][/\ GatewayClose(bufferedAmount') => DeliveredOrDisconnected
     /\ EmitEvent("node.pair.requested", bufferedAmount') => DeliveredOrDisconnected]_vars

\* ---------------------------------------------------------------------- C6
\* C6: a connection is registered (has a client record, is in the active
\* set, has been sent hello-ok) only after it has sent a well-formed connect
\* request whose range contains PROTOCOL_VERSION and whose credentials the
\* resolver accepted; every request handed to a handler was received on a
\* connection that had been registered before it arrived.
C6_RegisteredOnlyAfterGoodConnect ==
  /\ \A cl \in clients : goodConnect[cl.conn]
  /\ \A c \in Conns : client[c] # NoClient => goodConnect[c]
  /\ \A c \in Conns : \A i \in 1..Len(sent[c]) :
       sent[c][i].msg = "hello-ok" => goodConnect[c]
  /\ \A r \in inflight : /\ goodConnect[r.conn]
                         /\ client[r.conn] # NoClient
                         /\ client[r.conn].rid < r.id

\* C6 witness: a health request of a registered connection is in flight
C6_Witness ==
  \E r \in inflight : /\ r.method = "health"
                      /\ Registered(r.conn)
                      /\ handshakeState[r.conn] = "connected"

\* ---------------------------------------------------------------------- C7
\* the close reasons of a pre-handshake frame that is not a connect request
NonConnectErrors ==
  {"invalid request frame", "invalid handshake: first request must be connect"}

\* connection c is not registered after the step and its presence entry is as before
StaysUnregistered(c) ==
  /\ client'[c] = NoClient
  /\ \A cl \in clients' : cl.conn # c
  /\ presence'[<<"conn", c>>] = presence[<<"conn", c>>]

\* C7 as stated: before the handshake has completed, a frame that is not a
\* connect request is rejected with an explicit error and the connection is
\* closed with 1008; the connection is not registered, no presence entry is
\* written and the presence version is unchanged.
C7_NonConnectRejected ==
  [][\A c \in Conns :
       /\ client[c] = NoClient /\ msgs'[c] # msgs[c] =>
            \A f \in JsonFrames \cup OtherReqFrames :
              f.method # "connect" /\ OnMessage(c, f) =>
                /\ handshakeState'[c] = "failed"
                /\ sockCode'[c] = CLOSE_POLICY_VIOLATION
                /\ sockReason'[c] \in NonConnectErrors
                /\ IF f.kind = "req"
                   THEN /\ OneResponse(c, f.id)
                        /\ ~sent'[c][1].ok
                        /\ sent'[c][1].msg = sockReason'[c]
                   ELSE sent'[c] = << >>
                /\ StaysUnregistered(c)
                /\ presenceVersion' = presenceVersion
       /\ sockReason[c] \in NonConnectErrors => StaysUnregistered(c)]_vars

\* ---------------------------------------------------------------------- C8
\* C8 as stated: a first message that is not a well-formed connect request,
\* text that is not JSON included, closes the connection with 1008, never
\* with the default 1000, and leaves the handshake state failed.
C8_BadFirstMessageCloses1008 ==
  [][\A c \in Conns : msgs[c] = 0 /\ msgs'[c] = 1 =>
       \A f \in TextFrames \cup JsonFrames \cup OtherReqFrames :
         OnMessage(c, f) =>
           /\ sock'[c] # "open"
           /\ sockCode'[c] = CLOSE_POLICY_VIOLATION
           /\ handshakeState'[c] = "failed"]_vars

\* ---------------------------------------------------------------------- C9
\* C9 as stated: a connect request whose range does not contain
\* PROTOCOL_VERSION gets exactly one ok:false response "protocol mismatch"
\* and the connection is closed with 1002; no hello-ok is sent, the resolver
\* is not called, the connection is not registered and presence is unchanged.
C9_ProtocolMismatchRejected ==
  [][\A c \in Conns :
       /\ client[c] = NoClient /\ msgs'[c] # msgs[c] =>
            \A f \in ConnFrames :
              /\ f.method = "connect" /\ f.paramsOk /\ f.id = Total + 1
              /\ ~(f.min <= PROTOCOL_VERSION /\ PROTOCOL_VERSION <= f.max)
              /\ OnMessage(c, f)
              => /\ OneResponse(c, f.id)
                 /\ ~sent'[c][1].ok
                 /\ sent'[c][1].msg = "protocol mismatch"
                 /\ sockCode'[c] = CLOSE_PROTOCOL_ERROR
                 /\ sockReason'[c] = "protocol mismatch"
                 /\ pendingAuth' = pendingAuth
                 /\ StaysUnregistered(c)
                 /\ presenceVersion' = presenceVersion
       /\ sockReason[c] = "protocol mismatch" =>
            /\ StaysUnregistered(c)
            /\ \A fr \in Written(c) : fr.msg # "hello-ok"]_vars

\* --------------------------------------------------------------------- C10
\* C10 as stated: when the resolver denies a connect request the client gets
\* exactly one ok:false response "unauthorized" for it and the connection is
\* closed with 1008; the denied connection is never acknowledged: no hello-ok
\* is sent, it is never added to the active set, no presence entry is written.
\* (The response and the close are asked only of a connection that is still
\* open when the resolver answers.)
C10_DeniedNeverAcknowledged ==
  [][/\ \A p \in pendingAuth : ~p.ok /\ p \notin pendingAuth' /\ ~closed[p.conn] =>
          /\ OneResponse(p.conn, p.id)
          /\ ~sent'[p.conn][1].ok
          /\ sent'[p.conn][1].msg = "unauthorized"
          /\ sockCode'[p.conn] = CLOSE_POLICY_VIOLATION
          /\ sockReason'[p.conn] = "unauthorized"
          /\ \A cl \in clients' : cl.conn # p.conn
          /\ presence' = presence
          /\ presenceVersion' = presenceVersion
     /\ \A c \in Conns : sockReason[c] = "unauthorized" =>
          /\ StaysUnregistered(c)
          /\ \A fr \in Written(c) : fr.msg # "hello-ok"]_vars

\* --------------------------------------------------------------------- C11
\* C11: when the handshake timer of a connection fires, the connection has
\* no client yet and is closed with close cause handshake-timeout and
\* handshake state failed; every open connection without a client has its
\* timer armed; once a handshake has succeeded the timer is cancelled, so its
\* expiry never reaches an established connection.
C11_HandshakeTimer ==
  [][\A c \in Conns :
       /\ handshakeTimer[c] /\ HandshakeTimeout(c) =>
            /\ client[c] = NoClient
            /\ handshakeState'[c] = "failed"
            /\ closeCause'[c] = "handshake-timeout"
            /\ closed'[c]
            /\ sock'[c] # "open"
            /\ ~handshakeTimer'[c]
       /\ client'[c] # NoClient => ~handshakeTimer'[c]
       /\ sock'[c] = "open" /\ ~closed'[c] /\ client'[c] = NoClient => handshakeTimer'[c]
       /\ closeCause'[c] = "handshake-timeout" => closed'[c]]_vars

\* C11 witness: the timer has closed a connection whose connect request is
\* still waiting for the resolver
C11_Witness ==
  \E c \in Conns :
    /\ closeCause[c] = "handshake-timeout"
    /\ handshakeState[c] = "failed"
    /\ closed[c]
    /\ sockCode[c] = CLOSE_NORMAL
    /\ \E p \in pendingAuth : p.conn = c

\* --------------------------------------------------------------------- C12
\* connection c has no entry in the active set and no armed timer after the step
TornDown(c) ==
  /\ \A cl \in clients' : cl.conn # c
  /\ ~handshakeTimer'[c]

\* the close event of connection c marks its presence entry, once
PresenceMarkedOnce(c) ==
  sock[c] # "closed" /\ sock'[c] = "closed" /\ client[c] # NoClient /\ client[c].key # NoKey =>
    /\ presence'[client[c].key] = "disconnect"
    /\ presenceVersion' = presenceVersion + 1

\* C12 as stated: once the socket of a connection has errored or closed,
\* under every ordering of the error event, the close event, the handshake
\* timer and a pending authentication, the connection is not in the active
\* set and its timer is cleared; a tracked connection's presence entry is
\* set to disconnect and the presence version goes up by one for it.
C12_Teardown ==
  [][\A c \in Conns :
       /\ SocketError(c) => TornDown(c)
       /\ sock'[c] = "closed" => TornDown(c)
       /\ PresenceMarkedOnce(c)]_vars

\* --------------------------------------------------------------------- C13
\* C13: the first close of a connection clears its timer, removes its client
\* from the active set and closes the socket with the caller's code; every
\* later close, from whichever handler, changes nothing: the connection stays
\* closed, the close code and reason of the socket stay, the timer is not
\* touched and no entry of the active set is removed.
C13_DoubleCloseNoOp ==
  [][\A c \in Conns :
       /\ ~closed[c] /\ closed'[c] =>
            /\ ~handshakeTimer'[c]
            /\ client[c] \notin clients'
            /\ sock'[c] # "open"
       /\ closed[c] =>
            /\ closed'[c]
            /\ sockCode'[c] = sockCode[c]
            /\ sockReason'[c] = sockReason[c]
            /\ sock'[c] \in {sock[c], "closed"}
            /\ handshakeTimer'[c] = handshakeTimer[c]
            /\ {cl \in clients : cl.conn = c} \subseteq clients']_vars

\* C13 witness: a connection closed by a handshake-failure path has had its
\* close event, whose close() found it closed, and kept the first close code
C13_Witness ==
  \E c \in Conns :
    /\ closed[c]
    /\ sock[c] = "closed"
    /\ closeCause[c] = "invalid-handshake"
    /\ sockCode[c] = CLOSE_POLICY_VIOLATION

\* --------------------------------------------------------------------- C14
\* C14: the presence version and the health version never decrease, and
\* every hello-ok snapshot and every presence or health event written carries
\* the values the two counters have when the frame is built, that is after
\* the increment of the step that builds it.
C14_StateVersions ==
  [][/\ presenceVersion' >= presenceVersion
     /\ healthVersion' >= healthVersion
     /\ \A c \in Conns : \A fr \in Written(c) :
          fr.msg \in {"hello-ok", "presence", "health"} =>
            /\ fr.pv = presenceVersion'
            /\ fr.hv = healthVersion']_vars

\* C14 witness: a presence event has been delivered with the current
\* versions after both counters have moved
C14_Witness ==
  \E c \in Conns :
    /\ Len(sent[c]) >= 1
    /\ sent[c][1].msg = "presence"
    /\ sent[c][1].pv = presenceVersion
    /\ sent[c][1].hv = healthVersion
    /\ presenceVersion >= 3
    /\ healthVersion >= 2

\* --------------------------------------------------------------------- C15
\* C15: at most one health probe is in flight, and the healthRefresh marker
\* is set exactly while it is; a refreshHealthSnapshot call from the timer or
\* from a new connection while a probe is in flight starts no probe; the
\* health version moves only when a probe completes, by exactly one, together
\* with exactly one broadcast, a health event, and health events are written
\* by no other step.
C15_HealthCoalescing ==
  [][/\ probing' <= 1
     /\ healthRefresh' <=> probing' = 1
     /\ healthRefresh /\ (HealthTimer \/ \E p \in pendingAuth : AuthAllow(p)) =>
          /\ probing' = probing
          /\ healthRefresh'
     /\ ProbeResolve(bufferedAmount') =>
          /\ healthVersion' = healthVersion + 1
          /\ seq' = seq + 1
          /\ healthCache'
          /\ \A c \in Conns : \A fr \in Written(c) :
               fr.msg = "health" /\ fr.seq = seq' /\ fr.hv = healthVersion'
     /\ healthVersion' # healthVersion =>
          /\ healthVersion' = healthVersion + 1
          /\ probing' = probing - 1
          /\ seq' = seq + 1
     /\ \A c \in Conns : \A fr \in Written(c) :
          fr.msg = "health" => healthVersion' = healthVersion + 1]_vars

\* C15 witness: the health timer and a new connection have both asked for a
\* refresh, one probe is in flight and no probe has completed yet
C15_Witness ==
  /\ probing = 1
  /\ healthRefresh
  /\ probes >= 1
  /\ clients # {}
  /\ healthVersion = 1
  /\ ~healthCache

\* --------------------------------------------------------------------- C16
\* the entries a sweep deleted for capacity are no younger than the ones it kept
EvictedOldestFirst ==
  LET purged == PurgeExpired(dedupe, now) IN
  \A i \in 1..Len(purged), j \in 1..Len(dedupe') :
    ~DedupeHas(dedupe', purged[i].k) => purged[i].ts <= dedupe'[j].ts

\* C16: whenever the sweep finishes, the dedupe cache holds at most DEDUPE_MAX
\* entries, whatever it held when the sweep started, and the entries the sweep
\* deleted for capacity are the oldest that remained after the TTL purge.
C16_DedupeCapacity ==
  [][DedupeCleanup =>
       /\ Len(dedupe') <= DEDUPE_MAX
       /\ EvictedOldestFirst]_vars

\* --------------------------------------------------------------------- C17
\* the entries of the cache that are within the TTL at time t
Fresh(d, t) == {i \in 1..Len(d) : t - d[i].ts <= DEDUPE_TTL_MS}

C18_OneRunPerKey ==
  [][\A k \in IdemKeys :
       (/\ ChatSend(k)
        /\ lastStart[k] # NoTime
        /\ now - lastStart[k] <= DEDUPE_TTL_MS)
       => nextRun' = nextRun]_vars

\* --------------------------------------------------------------------- C19
\* run r is aborted in this step, by an abort request or by the deadline sweep
AbortStep(r) == ChatAbort(r) \/ (DedupeCleanup /\ r \in Overdue(now))

\* a delta or a completion signal for run r arrives in this step
SignalStep(r) == AgentDelta(r) \/ AgentEnd(r)

\* C19: a run that is aborted, by a request or by the deadline sweep, leaves
\* the active table and enters the recently-aborted set; while the gateway
\* runs it stays there, and off the active table, for the retention window;
\* a delta or completion signal for it that arrives in that time changes no
\* chat table and is neither processed nor broadcast.
C19_AbortedStaysAborted ==
  [][\A r \in Runs :
       /\ AbortStep(r) =>
            /\ chatAbortControllers'[r] = NoTime
            /\ chatRunRegistry'[r] = 0
            /\ abortedRuns'[r] = now
            /\ Did("aborted", r) \in chatStep'
       /\ Aborted(r) => ~Active(r)
       /\ (Aborted(r) /\ running' /\ now' - abortedRuns[r] <= ABORTED_RUN_TTL_MS) =>
            /\ abortedRuns'[r] = abortedRuns[r]
            /\ chatAbortControllers'[r] = NoTime
            /\ chatRunRegistry'[r] = 0
       /\ (Aborted(r) /\ SignalStep(r)) =>
            /\ chatStep' = {Did("ignored", r)}
            /\ UNCHANGED <<chatAbortControllers, chatRunRegistry, abortedRuns,
                           chatRunBuffers, chatDeltaSentAt, dedupe>>]_vars

\* C19 witness: a signal for an aborted run that had buffered output has just
\* been ignored, at the very end of the run's retention window
C19_Witness ==
  \E r \in Runs :
    /\ Did("ignored", r) \in chatStep
    /\ Aborted(r)
    /\ r \in chatRunBuffers
    /\ now - abortedRuns[r] = ABORTED_RUN_TTL_MS

\* --------------------------------------------------------------------- C20
\* C20: sendToSession(key, ...) reaches exactly the nodes that are subscribed
\* to the key at that moment, every one of them and no other, and nothing for
\* another key is sent; a subscription lasts from the node's subscribe call to
\* its unsubscribe call or its disconnection, so a node that has unsubscribed
\* from the key, or is not connected, receives nothing for it.
C20_SessionMirroring ==
  [][/\ \A k \in SessionKeys :
          SendToSession(k) =>
            bridgeSent' = {ToNode(n, k) : n \in {m \in bridgeNodes : k \in bridgeSubscriptions[m]}}
     /\ \A n \in BridgeNodeIds : n \notin bridgeNodes => bridgeSubscriptions[n] = {}
     /\ \A n \in BridgeNodeIds, k \in SessionKeys :
          /\ BridgeSubscribe(n, k) => k \in bridgeSubscriptions'[n]
          /\ BridgeUnsubscribe(n, k) => k \notin bridgeSubscriptions'[n]
          /\ NodeDisconnected(n) => bridgeSubscriptions'[n] = {}
          /\ (k \in bridgeSubscriptions'[n]) # (k \in bridgeSubscriptions[n]) =>
               \/ BridgeSubscribe(n, k)
               \/ BridgeUnsubscribe(n, k)
               \/ NodeDisconnected(n)]_vars

\* C20 witness: after a node has left and come back, an event for a session
\* key has just reached the one node subscribed to it and not the other node,
\* which is connected and subscribed to another key only
C20_Witness ==
  /\ bridgeNodes = BridgeNodeIds
  /\ \E n \in BridgeNodeIds, k \in SessionKeys :
       /\ bridgeSent = {ToNode(n, k)}
       /\ \E m \in BridgeNodeIds \ {n} :
            /\ bridgeSubscriptions[m] # {}
            /\ k \notin bridgeSubscriptions[m]
            /\ presenceVersion >= 5

\* --------------------------------------------------------------------- C21
\* C21: the shutdown sends every established healthy connection the shutdown
\* event and closes its socket with code 1012, leaves no accepted socket open,
\* whether registered or still in handshake, empties the active set and clears
\* the chat-run state; once the gateway is shut down no socket is open, the
\* active set stays empty and no event is broadcast any more.
C21_Shutdown ==
  [][/\ GatewayClose(bufferedAmount') =>
          /\ \A c \in Conns :
               (Registered(c) /\ sock[c] = "open" /\ ~IsSlow(bufferedAmount'[c])) =>
                 /\ \E fr \in Written(c) : fr.msg = "shutdown"
                 /\ sockCode'[c] = CLOSE_SERVICE_RESTART
          /\ clients' = {}
          /\ abortedRuns' = [r \in Runs |-> NoTime]
          /\ chatRunBuffers' = {}
          /\ \A c \in Conns : sock'[c] # "open"
     /\ ~running =>
          /\ clients' = {}
          /\ seq' = seq
          /\ \A c \in Conns : sock'[c] # "open"]_vars

\* --------------------------------------------------------------------- C22
\* the three fatal conditions of the claim
FatalStart(cfg) ==
  \/ ~cfg.loopback /\ cfg.authMode = "none"
  \/ cfg.tailscaleMode = "funnel" /\ cfg.authMode # "password"
  \/ cfg.portBusy

\* C22: with a bind host that is not loopback and auth mode none, with funnel
\* exposure and an auth mode other than password, or with the port in use,
\* startGatewayServer never comes to listen: it throws at the checks, or at the
\* bind when only the port is in use, and no connection is ever accepted.
C22_StartupFatal ==
  [][/\ FatalStart(startCfg) =>
          /\ serving' # "listening"
          /\ \A c \in Conns : sock'[c] = "idle"
          /\ StartChecks /\ ~startCfg.portBusy => serving' = "failed"
          /\ StartListen => serving' = "failed"
     /\ (\E c \in Conns : sock'[c] # "idle") => serving = "listening"]_vars

\* C22 witness: a gateway bound to a non-loopback host with auth mode none, its
\* port free, has thrown
C22_Witness ==
  /\ ~startCfg.loopback
  /\ startCfg.authMode = "none"
  /\ startCfg.tailscaleMode = "off"
  /\ ~startCfg.portBusy
  /\ serving = "failed"

\* --------------------------------------------------------------------- C23
\* gateway.token is defined in the raw config
HasLegacyToken(raw) == raw.root = "obj" /\ raw.gateway = "obj" /\ raw.token # "undef"

\* gateway.auth.token of a config, "undef" where there is no gateway.auth object
AuthTokenOf(cfg) == IF cfg.auth = "obj" THEN cfg.authToken ELSE "undef"

\* gateway.auth.mode of a config
AuthModeOf(cfg) == IF cfg.auth = "obj" THEN cfg.authMode ELSE "undef"

\* C23: for every raw config with gateway.token defined, the migrated config
\* has no gateway.token; where gateway.auth.token was undefined it is now the
\* legacy token, and gateway.auth.mode is "token" unless a mode (a non-empty
\* one) was there, which is kept; where gateway.auth.token was set, it and the
\* mode are left as they were; the raw config itself is not changed.
C23_GatewayTokenMigration ==
  [][ApplyLegacyMigrations =>
       /\ rawConfig' = rawConfig
       /\ HasLegacyToken(rawConfig) =>
            /\ next' # NullConfig
            /\ next'.gateway = "obj"
            /\ next'.token = "undef"
            /\ Len(changes') = 1
            /\ IF AuthTokenOf(rawConfig) = "undef"
               THEN /\ AuthTokenOf(next') = rawConfig.token
                    /\ AuthModeOf(next') = IF AuthModeOf(rawConfig) \in {"undef", ""}
                                            THEN "token"
                                            ELSE AuthModeOf(rawConfig)
               ELSE /\ AuthTokenOf(next') = AuthTokenOf(rawConfig)
                    /\ AuthModeOf(next') = AuthModeOf(rawConfig)]_vars

\* C23 witness: a legacy token has been moved next to a mode that was already
\* set, and the raw config still holds it
C23_Witness ==
  /\ legacyDone
  /\ rawConfig.token = "legacy-token"
  /\ rawConfig.auth = "obj"
  /\ rawConfig.authToken = "undef"
  /\ rawConfig.authMode = "password"
  /\ next.token = "undef"
  /\ next.authToken = "legacy-token"
  /\ next.authMode = "password"

\* --------------------------------------------------------------------- C24
\* what abortChatRunById leaves of run r: off the abort-controller map and the
\* active table, recorded as aborted now, its abort reported once
AbortedNow(r) ==
  /\ chatAbortControllers'[r] = NoTime
  /\ chatRunRegistry'[r] = 0
  /\ abortedRuns'[r] = now
  /\ Did("aborted", r) \in chatStep'

C25_RetentionCleanup ==
  [][\A r \in Runs :
       /\ (abortedRuns[r] # NoTime /\ running' /\ ~DedupeCleanup) =>
            abortedRuns'[r] = abortedRuns[r]
       /\ (abortedRuns[r] # NoTime /\ DedupeCleanup) =>
            IF now - abortedRuns[r] > ABORTED_RUN_TTL_MS
            THEN /\ abortedRuns'[r] = NoTime
                 /\ r \notin chatRunBuffers'
                 /\ r \notin chatDeltaSentAt'
                 /\ Did("forgotten", r) \in chatStep'
            ELSE /\ abortedRuns'[r] = abortedRuns[r]
                 /\ (r \in chatRunBuffers') = (r \in chatRunBuffers)
                 /\ (r \in chatDeltaSentAt') = (r \in chatDeltaSentAt)
       /\ (abortedRuns'[r] = NoTime /\ chatAbortControllers'[r] = NoTime) =>
            /\ r \notin chatRunBuffers'
            /\ r \notin chatDeltaSentAt']_vars

\* C25 witness: the sweep has just dropped the record of a run that was aborted
\* longer ago than the retention window, and nothing of the run is left
C25_Witness ==
  \E r \in Runs :
    /\ Did("forgotten", r) \in chatStep
    /\ r <= nextRun
    /\ abortedRuns[r] = NoTime
    /\ chatAbortControllers[r] = NoTime
    /\ r \notin chatRunBuffers
    /\ r \notin chatDeltaSentAt
    /\ running

\* --------------------------------------------------------------------- C26
\* C26: when a node authenticates, its presence entry is written with reason
\* node-connected, the presence version goes up by one and the node's beacon
\* timer is set; when it disconnects, it is left with no subscription and no
\* beacon timer, its presence entry is written with reason node-disconnected
\* and the version goes up by one; a node that is not connected has no beacon
\* timer, no beacon of it fires and no session event is sent to it.
C26_NodeLifecycle ==
  [][\A n \in BridgeNodeIds :
       /\ NodeAuthenticated(n) =>
            /\ presence'[NodeKeyOf(n)] = "node-connected"
            /\ presenceVersion' = presenceVersion + 1
            /\ n \in nodePresenceTimers'
       /\ NodeDisconnected(n) =>
            /\ bridgeSubscriptions'[n] = {}
            /\ n \notin nodePresenceTimers'
            /\ presence'[NodeKeyOf(n)] = "node-disconnected"
            /\ presenceVersion' = presenceVersion + 1
       /\ n \notin bridgeNodes =>
            /\ n \notin nodePresenceTimers
            /\ ~NodePresenceTimer(n)
            /\ \A k \in SessionKeys : ToNode(n, k) \notin bridgeSent']_vars

\* C26 witness: a node has disconnected and, with its presence entry saying so
\* and its timer gone, a session event has just gone to the other node, whose
\* periodic beacon has fired
C26_Witness ==
  \E n \in BridgeNodeIds, m \in BridgeNodeIds, k \in SessionKeys :
    /\ bridgeNodes = {m}
    /\ presence[NodeKeyOf(n)] = "node-disconnected"
    /\ presence[NodeKeyOf(m)] = "periodic"
    /\ nodePresenceTimers = {m}
    /\ bridgeSubscriptions[n] = {}
    /\ bridgeSent = {ToNode(m, k)}

\* --------------------------------------------------------------------- C27
\* the failure of the handler of r changes nothing of any connection: no
\* socket, no closed flag, no handshake state, no client, not the active set
\* nor the other requests in flight
Contained(r) ==
  /\ sock' = sock
  /\ closed' = closed
  /\ handshakeState' = handshakeState
  /\ client' = client
  /\ clients' = clients
  /\ inflight' = inflight \ {r}

\* C27 as stated: whenever a request handler throws or rejects, the caller is
\* sent the one response ok:false, UNAVAILABLE, with the request's id, and the
\* connection is neither closed nor taken off the active set.
C27_FailureAnswered ==
  [][\A r \in inflight :
       HandlerThrow(r) =>
         /\ sent'[r.conn] = <<Res(r.id, FALSE, "UNAVAILABLE", "", 0, 0)>>
         /\ Contained(r)]_vars

\* C27 amended: when a request handler throws or rejects while the socket is
\* still open, the caller is sent the one response ok:false, UNAVAILABLE, with
\* the request's id, nothing else is written, and the connection stays open,
\* registered and able to have its next request dispatched; when the socket
\* has been closed in the meantime nothing is written; in both cases the
\* failure changes no connection's state.
C27_FailureContained ==
  [][\A r \in inflight :
       HandlerThrow(r) =>
         /\ Contained(r)
         /\ \A c \in Conns \ {r.conn} : sent'[c] = << >>
         /\ IF sock[r.conn] = "open"
            THEN /\ sent'[r.conn] = <<Res(r.id, FALSE, "UNAVAILABLE", "", 0, 0)>>
                 /\ sock'[r.conn] = "open"
                 /\ client'[r.conn] # NoClient
                 /\ \E cl \in clients' : cl.conn = r.conn
            ELSE sent'[r.conn] = << >>]_vars

\* C27 witness: the catch has just answered a failed request with UNAVAILABLE
\* on a connection that is open, registered, has nothing else in flight and
\* can still send its next request
C27_Witness ==
  \E c \in Conns :
    /\ Len(sent[c]) = 1
    /\ sent[c][1].code = "UNAVAILABLE"
    /\ ~sent[c][1].ok
    /\ sock[c] = "open"
    /\ ~closed[c]
    /\ Registered(c)
    /\ handshakeState[c] = "connected"
    /\ ~\E r \in inflight : r.conn = c
    /\ Total < MaxMsgs

\* --------------------------------------------------------------------- C28
\* the step handles, on connection c, a message that is not a well-formed
\* request frame: text that is not JSON, or JSON that is no request frame
MalformedStep(c) ==
  \E f \in ConnFrames : RecvUnparseable(c, f) \/ RecvInvalidFrame(c, f)

\* C28: every message that is received on an established connection (its
\* client is set and its socket open) and is not a well-formed request frame,
\* text that is not JSON included, is answered with one INVALID_REQUEST error
\* response, is dispatched to no handler, and leaves the connection open and
\* registered.
C28_MalformedAnswered ==
  [][\A c \in Conns :
       (client[c] # NoClient /\ sock[c] = "open" /\ MalformedStep(c)) =>
         /\ Len(sent'[c]) = 1
         /\ sent'[c][1].t = "res"
         /\ ~sent'[c][1].ok
         /\ sent'[c][1].code = "INVALID_REQUEST"
         /\ inflight' = inflight
         /\ sock'[c] = "open"
         /\ clients' = clients]_vars

\* --------------------------------------------------------------------- C29
\* the request leaves the process running and every connection as it was
RestartLeavesGateway ==
  /\ running' = running
  /\ serving' = serving
  /\ sock' = sock
  /\ closed' = closed
  /\ client' = client
  /\ clients' = clients
  /\ inflight' = inflight
  /\ sent' = Nothing

\* C29 as stated: for every restart-required plan the coordinator emits the
\* restart signal, and it neither stops the process nor touches the open
\* connections and the active set.
C29_RestartSignalled ==
  [][\A plan \in ReloadPlans :
       RequestGatewayRestart(plan) =>
         /\ restartSignals' = restartSignals + 1
         /\ RestartLeavesGateway]_vars

\* C29 amended: for every restart-required plan the coordinator logs the
\* reasons (the restart reasons, or the changed paths when there are none) and
\* emits the restart signal once when a SIGUSR1 listener is installed; with no
\* listener it logs that the restart is skipped and emits nothing; either way
\* it neither stops the process nor touches the connections and the active set.
C29_RestartSignalledIfListened ==
  [][\A plan \in ReloadPlans :
       RequestGatewayRestart(plan) =>
         /\ reloadLog'[1].msg = "config change requires gateway restart"
         /\ reloadLog'[1].reasons =
              IF plan.restartReasons = << >> THEN plan.changedPaths
              ELSE plan.restartReasons
         /\ IF sigusr1Listeners > 0
            THEN /\ restartSignals' = restartSignals + 1
                 /\ Len(reloadLog') = 1
            ELSE /\ restartSignals' = restartSignals
                 /\ Len(reloadLog') = 2
                 /\ reloadLog'[2].msg = "no SIGUSR1 listener found; restart skipped"
         /\ RestartLeavesGateway]_vars

\* C29 witness: with a connection open and registered, a restart has been
\* signalled and a later one, with no listener left, has just been skipped
C29_Witness ==
  /\ restartSignals = 1
  /\ sigusr1Listeners = 0
  /\ Len(reloadLog) = 2
  /\ \E c \in Conns : Registered(c) /\ sock[c] = "open"

\* --------------------------------------------------------------------- C30
\* the step is a node beacon or the disconnect of a tracked connection, and
\* writes the presence entry of key with reason
PresenceAnnounced(key, reason) ==
  \/ /\ key = NodeKey
     /\ reason \in NodeReasons
     /\ BeaconNodePresence(reason, bufferedAmount')
  \/ /\ reason = "disconnect"
     /\ \E c \in Conns : /\ client[c] # NoClient
                         /\ client[c].key = key
                         /\ SocketCloseEvent(c, bufferedAmount')

\* C30: the step that resumes a successful handshake writes the presence
\* entry, increments the presence version, sends hello-ok with the new version
\* and registers the connection, all at once; a node beacon and a disconnect
\* write the entry, increment the version and broadcast the new version in one
\* step; so in no step does the presence table change without the version
\* going up by one, and the version goes up only in such a step.
C30_AtomicMutation ==
  [][/\ \A p \in pendingAuth :
          AuthAllow(p) =>
            /\ client'[p.conn] \in clients'
            /\ handshakeState'[p.conn] = "connected"
            /\ sock[p.conn] = "open" =>
                 /\ Len(sent'[p.conn]) = 1
                 /\ sent'[p.conn][1].msg = "hello-ok"
                 /\ sent'[p.conn][1].pv = presenceVersion'
            /\ IF p.key # NoKey
               THEN /\ presence'[p.key] = "connect"
                    /\ presenceVersion' = presenceVersion + 1
               ELSE /\ presence' = presence
                    /\ presenceVersion' = presenceVersion
     /\ \A key \in PresenceKeys, reason \in NodeReasons \cup {"disconnect"} :
          PresenceAnnounced(key, reason) =>
            /\ presence'[key] = reason
            /\ presenceVersion' = presenceVersion + 1
            /\ seq' = seq + 1
            /\ \A c \in Conns : \A fr \in Written(c) :
                 fr.msg = "presence" /\ fr.seq = seq' /\ fr.pv = presenceVersion'
     /\ presence' # presence => presenceVersion' = presenceVersion + 1
     /\ presenceVersion' # presenceVersion =>
          /\ presenceVersion' = presenceVersion + 1
          /\ \E key \in PresenceKeys :
               /\ presence'[key] \in {"connect", "disconnect"} \cup NodeReasons
               /\ \A other \in PresenceKeys \ {key} : presence'[other] = presence[other]
               /\ \/ \E p \in pendingAuth : p.key = key /\ AuthAllow(p)
                  \/ PresenceAnnounced(key, presence'[key])]_vars

\* C30 witness: after a node beacon, a handshake has just succeeded: the
\* connection is registered, its presence entry is written and the hello-ok
\* it was sent carries the version as incremented
C30_Witness ==
  \E c \in Conns :
    /\ Len(sent[c]) = 1
    /\ sent[c][1].msg = "hello-ok"
    /\ sent[c][1].pv = presenceVersion
    /\ presenceVersion >= 2
    /\ Registered(c)
    /\ client[c].key # NoKey
    /\ presence[client[c].key] = "connect"
    /\ presence[NodeKey] \in NodeReasons

\* --------------------------------------------------------------------- C31
\* C31: for every string and every cap, the default included, what
\* truncateCloseReason returns has at most maxBytes bytes of UTF-8, is the
\* input itself when the input fits, and is "invalid handshake" for the empty
\* string, also when the cut falls inside a multi-byte character.
C31_CloseReasonCap ==
  truncated # NotCalled =>
    /\ rawReason = << >> => truncated = InvalidHandshakeReason
    /\ (rawReason # << >> /\ Len(Utf8(rawReason)) <= maxBytes) => truncated = rawReason
    /\ rawReason # << >> => Len(Utf8(truncated)) <= maxBytes

\* --------------------------------------------------------------------- C32
\* C32: the active set never holds more than one client entry of a
\* connection, hello-ok is written only to a connection that has no client
\* yet, so at most once, and no step writes the same event frame to a socket
\* twice.
C32_SingleRegistration ==
  [][\A c \in Conns :
       /\ Cardinality({cl \in clients' : cl.conn = c}) <= 1
       /\ \A fr \in Written(c) : fr.msg = "hello-ok" => client[c] = NoClient
       /\ \A i, j \in 1..Len(sent'[c]) :
            (i # j /\ sent'[c][i].t = "event") => sent'[c][j] # sent'[c][i]]_vars

\* --------------------------------------------------------------------- C33
\* C33: a connection whose handshake state is failed stays failed, and a
\* connection whose handshake has failed or whose close() has run is not
\* marked connected by any later step, gets no client, no new entry in the
\* active set and no "connect" presence entry.
C33_TerminalHandshake ==
  [][\A c \in Conns :
       /\ handshakeState[c] = "failed" => handshakeState'[c] = "failed"
       /\ handshakeState[c] = "connected" => handshakeState'[c] = "connected"
       /\ (handshakeState[c] = "failed" \/ closed[c]) =>
            /\ handshakeState'[c] = handshakeState[c]
            /\ client'[c] = client[c]
            /\ {cl \in clients' : cl.conn = c} \subseteq clients
            /\ presence'[<<"conn", c>>] = "connect" => presence[<<"conn", c>>] = "connect"]_vars

\* --------------------------------------------------------------------- C34
\* C34: every step that increments the presence version also broadcasts: it
\* takes the next sequence number and writes a presence event stamped with
\* the new version to every registered connection that is still open and is
\* not a slow consumer.
C34_VersionBroadcast ==
  [][presenceVersion' # presenceVersion =>
       /\ seq' = seq + 1
       /\ \A c \in Conns :
            (Registered(c) /\ sock'[c] = "open" /\ ~IsSlow(bufferedAmount'[c])) =>
              \E fr \in Written(c) : /\ fr.t = "event"
                                     /\ fr.msg = "presence"
                                     /\ fr.pv = presenceVersion']_vars

\* --------------------------------------------------------------------- C35
\* C35: a node that is connected has its beacon timer, and a node that is
\* connected before and after a step keeps its subscriptions unless the step
\* is its own unsubscribe, also when the node has come back on a new
\* connection and the disconnect of the old one is delivered afterwards.
C35_TimerPerConnectedNode ==
  [][\A n \in BridgeNodeIds :
       /\ n \in bridgeNodes' => n \in nodePresenceTimers'
       /\ (n \in bridgeNodes /\ n \in bridgeNodes'
           /\ ~\E k \in SessionKeys : BridgeUnsubscribe(n, k)) =>
            bridgeSubscriptions[n] \subseteq bridgeSubscriptions'[n]]_vars

\* --------------------------------------------------------------------- C36
\* C36: when the probe in flight rejects, the cached snapshot and the health
\* version stay as they were, no sequence number is taken and nothing is
\* written to any socket, and the in-flight marker is cleared; whenever no
\* probe is in flight the marker is clear, and the next refresh call, from
\* the timer or from a new connection, starts a probe.
C36_ProbeFailureRecovers ==
  [][/\ ProbeReject =>
          /\ healthCache' = healthCache
          /\ healthVersion' = healthVersion
          /\ seq' = seq
          /\ \A c \in Conns : sent'[c] = << >>
          /\ ~healthRefresh'
          /\ probing' = 0
     /\ probing' = 0 => ~healthRefresh'
     /\ (probing = 0 /\ (HealthTimer \/ \E p \in pendingAuth : AuthAllow(p))) =>
          /\ probing' = 1
          /\ healthRefresh']_vars

\* C36 witness: the probe the health timer started has rejected: none is in
\* flight, the marker is clear, and there is neither a snapshot nor a new
\* health version, while a connection is registered
C36_Witness ==
  /\ probes >= 1
  /\ probing = 0
  /\ ~healthRefresh
  /\ ~healthCache
  /\ healthVersion = 1
  /\ clients # {}

\* --------------------------------------------------------------------- C37
\* C37: every event frame written to a connection carries a sequence number
\* above the counter as it was before the step, so above every event frame
\* written earlier; the event frames one step writes to a connection are in
\* strictly increasing order; and an event frame is written only to a
\* connection whose client is set, that is after its hello-ok.
C37_DeliveryOrder ==
  [][\A c \in Conns :
       /\ \A fr \in Written(c) :
            fr.t = "event" => (fr.seq > seq /\ client[c] # NoClient)
       /\ \A i, j \in 1..Len(sent'[c]) :
            (i < j /\ sent'[c][i].t = "event" /\ sent'[c][j].t = "event") =>
              sent'[c][i].seq < sent'[c][j].seq]_vars

\* --------------------------------------------------------------------- C38
\* C38: the promise of a request is settled at most once, and only while its
\* id is in the pending map; the step that settles it removes the id, and no
\* other step removes one; a request that has been issued and is not settled
\* is in the map with its timeout still to fire, so it will be settled; hence a
\* response or a timeout that comes after the request has settled changes
\* nothing.
C38_SettledOnce ==
  [][\A id \in WebIds :
       /\ Len(webCalls'[id]) <= 1
       /\ webCalls'[id] # webCalls[id] => (id \in webPending /\ id \notin webPending')
       /\ (id \in webPending /\ id \notin webPending') => webCalls'[id] # webCalls[id]
       /\ (id <= webIssued' /\ webCalls'[id] = << >>) =>
            (id \in webPending' /\ id \in webTimers')
       /\ id \in webPending' => webCalls'[id] = << >>]_vars

\* a request timed out and its response came afterwards, and another was
\* answered and its timeout fired afterwards
C38_Witness ==
  /\ webCalls[1] = <<"timeout">>
  /\ \E i \in 1..Len(received) : received[i].kind = "res" /\ received[i].id = 1
  /\ webCalls[2] = <<"resolved">>
  /\ 2 \notin webTimers

\* --------------------------------------------------------------------- C39
\* C39: once the socket has opened, the promise connect() returned is settled
\* in the end, resolved by hello-ok or rejected by an error or a close,
\* whatever the close code, 1000 before any hello-ok included.
C39_ConnectSettles ==
  (wsReady = "open") ~> (connectPromise \in {"resolved", "rejected"})

\* --------------------------------------------------------------------- C40
\* C40: the gateway section either wizard writes has bind loopback whenever
\* Tailscale is not off, an auth mode whenever bind is not loopback, and mode
\* password whenever Tailscale is funnel, so startGatewayServer's checks pass
\* on it; and its auth block does not hold both a token and a password.
C40_WizardOutput ==
  wizard # "none" =>
    /\ written.tailscaleMode # "off" => written.bind = "loopback"
    /\ written.bind # "loopback" => written.auth.mode # "undef"
    /\ written.tailscaleMode = "funnel" => written.auth.mode = "password"
    /\ ~StartThrows(WrittenStartCfg(written))
    /\ ~(written.auth.token /\ written.auth.password)

====
